---- MODULE Spec2Model ----
(***************************************************************************)
(* Model of the proactive-ai-bot briefing pipeline:                        *)
(*   - the Dedup Store of seen news URLs kept in a GitHub Gist             *)
(*     (src/src/services/news.py, src/src/utils/storage.py),               *)
(*   - get_news_briefing's filter / previously-seen fallback,              *)
(*   - the scheduled notification commands of src/src/main.py.             *)
(* Time is counted in whole days of Korea Standard Time.  The code stores  *)
(* datetime.now(KST).isoformat() strings and compares them as strings;     *)
(* every stored stamp carries the same +09:00 offset, so the string order  *)
(* is the chronological order and a stamp is modelled by its day number.   *)
(***************************************************************************)
EXTENDS Integers, Sequences, FiniteSets, TLC

VARIABLES
    now,          \* datetime.now(KST), in days
    gist_token,   \* config.GIST_TOKEN is set (non-empty)
    env_gist_id,  \* value of get_news_gist_id(): NEWS_GIST_ID / SETTINGS_GIST_ID
    gists,        \* the remote Gist service: gist id -> (file name -> content)
    created,      \* number of gists created so far by create_gist
    first_seen,   \* history: gist id -> (url -> day the url entered that blob)
    last_save,    \* record of the last direct _save_seen_news_urls call, with
                  \* the urls persisted under its key before and after it
    loaded,       \* record of the last direct _get_seen_news_urls call
    run,          \* record of the last get_news_briefing call
    cmd,          \* record of the last scheduled command invocation
    sends,        \* the send_message_sync calls of that invocation, in order
    last_call,    \* the last direct call of one of the program's functions:
                  \* its name mapped to its arguments and what it returned
    default_settings,  \* settings.DEFAULT_SETTINGS, the module-level dict
                  \* of this process
    inflight      \* the update_gist call in progress: where it stands
                  \* between its GET and its PATCH, and what it read

storeVars == <<now, gist_token, env_gist_id, gists, created, first_seen>>
newsVars  == <<last_save, loaded, run>>
cmdVars   == <<cmd, sends>>
procVars  == <<default_settings, inflight>>
vars      == <<now, gist_token, env_gist_id, gists, created, first_seen,
               last_save, loaded, run, cmd, sends, last_call,
               default_settings, inflight>>

---------------------------------------------------------------------------
(* Bounds of the model *)

MaxNow == 8          \* last day the clock reaches
MaxCreated == 1      \* gists create_gist may create
MaxRaw == 2          \* length of the raw fetch all_news
MaxAttempts == 3     \* largest max_attempts given to retry_on_failure

(* Program constants *)

RetentionDays == 7   \* timedelta(days=7)
MinTitleLen == 10    \* len(title) < 10
NewsCommandMaxItems == 5   \* get_news_briefing(max_items=5)
RetryDelay == 1      \* delay: float = 1.0
RetryBackoff == 2    \* backoff: float = 2.0

TickSteps == {3, 4}  \* days between two runs
MaxItemsChoices == {1, 2}   \* max_items of a direct get_news_briefing call

---------------------------------------------------------------------------
(* Gist ids, files, contents *)

NoGist == <<>>                 \* None or "" (both falsy)
EnvGist == <<"env">>           \* the id configured in the environment
NewGist(n) == <<"new", n>>     \* the id of the n-th gist create_gist made
NewsFile == "news_state.json"
SettingsFile == "settings.json"

Urls == {"u1", "u2"}

(* json.dumps / json.loads: a content is a text; the empty text <<>> stands
   for None or "" (get_gist's "not found"), <<d>> is the JSON text of d.   *)
JsonDumps(state) == <<state>>
JsonLoads(content) == content[1]

(* {"seen_urls": [(url, now) ...], "last_updated": now} *)
NewsState(all_urls, stamp) ==
    [seen_urls |-> {<<u, stamp>> : u \in all_urls}, last_updated |-> stamp]

---------------------------------------------------------------------------
(* storage.py *)

(* get_gist: GET the gist; None on any failure or when the file is absent *)
GetGist(gist_id, filename, http_ok) ==
    IF ~http_ok \/ gist_id \notin DOMAIN gists THEN <<>>
    ELSE IF filename \in DOMAIN gists[gist_id]
         THEN gists[gist_id][filename]
         ELSE <<>>

(* load_state: Optional dict, <<>> for None *)
LoadState(gist_id, filename, http_ok) ==
    LET content == GetGist(gist_id, filename, http_ok)
    IN  IF content # <<>> THEN <<JsonLoads(content)>> ELSE <<>>

(* update_gist: GET the gist, resend every file with the target replaced,
   PATCH.  Yields the new service state and the boolean it returns.       *)
UpdateGist(gist_id, filename, content, get_ok, patch_ok) ==
    IF ~gist_token THEN [gists |-> gists, ok |-> FALSE]
    ELSE IF ~get_ok \/ gist_id \notin DOMAIN gists
         THEN [gists |-> gists, ok |-> FALSE]
    ELSE LET current == gists[gist_id]
             files == [f \in DOMAIN current \cup {filename} |->
                          IF f = filename THEN content ELSE current[f]]
         IN  IF patch_ok
             THEN [gists |-> [gists EXCEPT ![gist_id] = files], ok |-> TRUE]
             ELSE [gists |-> gists, ok |-> FALSE]

(* create_gist: POST a new gist holding the one file; returns its id *)
CreateGist(filename, content, post_ok) ==
    IF ~gist_token \/ ~post_ok \/ created >= MaxCreated
    THEN [gists |-> gists, created |-> created, id |-> NoGist]
    ELSE LET id == NewGist(created + 1)
         IN  [gists |-> [g \in DOMAIN gists \cup {id} |->
                            IF g = id THEN [f \in {filename} |-> content]
                            ELSE gists[g]],
              created |-> created + 1,
              id |-> id]

(* save_state: update the given gist, or create one when no id is given *)
SaveState(state, gist_id, filename, http) ==
    LET content == JsonDumps(state)
    IN  IF gist_id # NoGist
        THEN LET u == UpdateGist(gist_id, filename, content, http.get, http.write)
             IN  [gists |-> u.gists, created |-> created,
                  id |-> IF u.ok THEN gist_id ELSE NoGist]
        ELSE CreateGist(filename, content, http.write)

---------------------------------------------------------------------------
(* news.py: the Dedup Store *)

Cutoff == now - RetentionDays

(* _get_seen_news_urls with the window forgotten: only today's stamps pass *)
GetSeenNewsUrlsTodayOnly(gist_id, http_ok) ==
    IF ~gist_token \/ gist_id = NoGist THEN {}
    ELSE LET state == LoadState(gist_id, NewsFile, http_ok)
         IN  IF state # <<>>
             THEN {p[1] : p \in {q \in state[1].seen_urls : q[2] >= now}}
             ELSE {}

(* _get_seen_news_urls *)
GetSeenNewsUrls(gist_id, http_ok) ==
    IF ~gist_token \/ gist_id = NoGist THEN {}
    ELSE LET state == LoadState(gist_id, NewsFile, http_ok)
         IN  IF state # <<>>
             THEN {p[1] : p \in {q \in state[1].seen_urls : q[2] >= Cutoff}}
             ELSE {}

(* _save_seen_news_urls: load, merge, stamp everything with now, save *)
SaveSeenNewsUrls(urls, gist_id, http) ==
    IF ~gist_token
    THEN [gists |-> gists, created |-> created, id |-> NoGist]
    ELSE LET existing_urls == GetSeenNewsUrls(gist_id, http.merge)
             all_urls == existing_urls \cup urls
             state == NewsState(all_urls, now)
         IN  SaveState(state, gist_id, NewsFile, http)

HttpOutcomes == [load : BOOLEAN, merge : BOOLEAN, get : BOOLEAN, write : BOOLEAN]

(* History of the blobs: the day each url entered the blob it is in.  A url
   keeps its day while it stays in the blob; one whose stamp had left the
   window, or that was not there, enters anew.                             *)
BlobPairs(g, gs) ==
    IF g \in DOMAIN gs /\ NewsFile \in DOMAIN gs[g] /\ gs[g][NewsFile] # <<>>
    THEN JsonLoads(gs[g][NewsFile]).seen_urls
    ELSE {}

UrlsOf(g, gs) == {p[1] : p \in BlobPairs(g, gs)}

LiveUrlsOf(g, gs) == {p[1] : p \in {q \in BlobPairs(g, gs) : q[2] >= Cutoff}}

FirstSeenAfter(gs) ==
    [g \in DOMAIN gs |->
        [u \in UrlsOf(g, gs) |->
            IF g \in DOMAIN first_seen /\ u \in DOMAIN first_seen[g]
               /\ u \in LiveUrlsOf(g, gists)
            THEN first_seen[g][u] ELSE now]]

---------------------------------------------------------------------------
(* news.py: get_news_briefing *)

(* A title is its normalized text (title.lower().strip()) together with the
   way the provider wrote it; two spellings of one headline differ only in
   the style.  len() of the normalized text is the length the code tests.  *)
Title(core, style) == [core |-> core, style |-> style]
(* the title compared as the provider wrote it *)
NormTitleAsWritten(title) == title.core \o title.style

NormTitle(title) == title.core

NewsItem(url, title) == [url |-> url, title |-> title]

(* The items a provider may return: "" is a missing link, "removed" a title
   shorter than 10 characters.                                             *)
Items ==
    { NewsItem("u1", Title("alpha story one", "plain")),
      NewsItem("u2", Title("alpha story one", "shout")),
      NewsItem("u2", Title("beta story two", "plain")),
      NewsItem("u1", Title("removed", "plain")),
      NewsItem("", Title("beta story two", "plain")) }

RawFetches == UNION { [1..n -> Items] : n \in 0..MaxRaw }

Min(a, b) == IF a <= b THEN a ELSE b

(* lines 381-409: drop seen urls, unusable items and repeated titles, stop
   at max_items.  acc carries seen_titles, unique_news, new_urls,
   skipped_seen.                                                           *)
RECURSIVE FilterSeenFrom(_, _, _, _, _)
FilterSeenFrom(all_news, i, seen_urls, max_items, acc) ==
    IF i > Len(all_news) THEN acc
    ELSE LET item == all_news[i]
             url == item.url
             title == NormTitle(item.title)
         IN  IF url \in seen_urls
             THEN FilterSeenFrom(all_news, i + 1, seen_urls, max_items,
                                 [acc EXCEPT !.skipped_seen = @ + 1])
             ELSE IF url = "" \/ Len(title) < MinTitleLen
             THEN FilterSeenFrom(all_news, i + 1, seen_urls, max_items, acc)
             ELSE IF title \in acc.seen_titles
             THEN FilterSeenFrom(all_news, i + 1, seen_urls, max_items, acc)
             ELSE LET acc2 == [acc EXCEPT
                                 !.seen_titles = @ \cup {title},
                                 !.unique_news = Append(@, item),
                                 !.new_urls = @ \cup {url}]
                  IN  IF Len(acc2.unique_news) >= max_items
                      THEN acc2
                      ELSE FilterSeenFrom(all_news, i + 1, seen_urls,
                                          max_items, acc2)

(* the filter with the "url in seen_urls" test left out *)
FilterSeenKeepingSeen(all_news, seen_urls, max_items) ==
    FilterSeenFrom(all_news, 1, {}, max_items,
                   [seen_titles |-> {}, unique_news |-> <<>>,
                    new_urls |-> {}, skipped_seen |-> 0])

FilterSeen(all_news, seen_urls, max_items) ==
    FilterSeenFrom(all_news, 1, seen_urls, max_items,
                   [seen_titles |-> {}, unique_news |-> <<>>,
                    new_urls |-> {}, skipped_seen |-> 0])

(* lines 414-427: nothing survived, so offer items of all_news[:max_items]
   again, whether seen or not                                              *)
RECURSIVE SeenFallbackFrom(_, _, _, _, _)
SeenFallbackFrom(head, i, max_items, seen_titles, unique_news) ==
    IF i > Len(head) THEN unique_news
    ELSE LET item == head[i]
             url == item.url
             title == NormTitle(item.title)
         IN  IF url # "" /\ Len(title) >= MinTitleLen /\ title \notin seen_titles
             THEN LET more == Append(unique_news, item)
                  IN  IF Len(more) >= max_items THEN more
                      ELSE SeenFallbackFrom(head, i + 1, max_items,
                                            seen_titles \cup {title}, more)
             ELSE SeenFallbackFrom(head, i + 1, max_items, seen_titles,
                                   unique_news)

SeenFallback(all_news, max_items, seen_titles) ==
    SeenFallbackFrom(SubSeq(all_news, 1, Min(max_items, Len(all_news))), 1,
                     max_items, seen_titles, <<>>)

(* The urls of a list of items *)
UrlsIn(items) == {items[i].url : i \in 1..Len(items)}

(* every headline asked for twice *)
HeadlineCallsRetried(unique_news) == 2 * Len(unique_news)

(* lines 429-448: one summarize_news_headline call, hence one generate_text
   call, for each item of unique_news (a fetched item has no "headline")   *)
HeadlineCalls(unique_news) == Len(unique_news)

(* The urls the blob of a key holds with a stamp inside the 7-day window *)
PersistedSeen(gist_id) == LiveUrlsOf(gist_id, gists)

(* get_news_briefing(max_items, gist_id) on the raw fetch all_news: the
   value returned, what it did to the gist service, and the facts of the
   call.                                                                   *)
GetNewsBriefing(all_news, max_items, gist_id_arg, http) ==
    LET gist_id == IF gist_id_arg = NoGist THEN env_gist_id ELSE gist_id_arg
        seen_urls == GetSeenNewsUrls(gist_id, http.load)
        facts == [all_news |-> all_news, max_items |-> max_items,
                  gist_id |-> gist_id, seen_urls |-> seen_urls,
                  persisted |-> PersistedSeen(gist_id),
                  load_failed |-> gist_token /\ gist_id # NoGist /\ ~http.load]
        unchanged == [gists |-> gists, created |-> created, id |-> NoGist]
    IN  IF all_news = <<>>
        THEN [called |-> TRUE, facts |-> facts, unseen |-> <<>>,
              new_urls |-> {}, result |-> <<>>, llm_calls |-> 0,
              store |-> unchanged]
        ELSE LET f == FilterSeen(all_news, seen_urls, max_items)
                 unique_news ==
                     IF f.unique_news = <<>>
                     THEN SeenFallback(all_news, max_items, f.seen_titles)
                     ELSE f.unique_news
                 store ==
                     IF f.new_urls # {} /\ gist_token
                     THEN SaveSeenNewsUrls(seen_urls \cup f.new_urls, gist_id, http)
                     ELSE unchanged
             IN  [called |-> TRUE, facts |-> facts, unseen |-> f.unique_news,
                  new_urls |-> f.new_urls,
                  result |-> SubSeq(unique_news, 1,
                                    Min(max_items, Len(unique_news))),
                  llm_calls |-> HeadlineCalls(unique_news),
                  store |-> store]

NoRun ==
    [called |-> FALSE,
     facts |-> [all_news |-> <<>>, max_items |-> 0, gist_id |-> NoGist,
                seen_urls |-> {}, persisted |-> {}, load_failed |-> FALSE],
     unseen |-> <<>>, new_urls |-> {}, result |-> <<>>, llm_calls |-> 0,
     store |-> [gists |-> <<>>, created |-> 0, id |-> NoGist]]

---------------------------------------------------------------------------
(* State after start-up *)

NoSave ==
    [called |-> FALSE, key |-> NoGist, urls |-> {}, id |-> NoGist, at |-> 0,
     before |-> {}, after |-> {}]
NoLoad == [called |-> FALSE, key |-> NoGist, urls |-> {}, failed |-> FALSE, at |-> 0]
NoCall == [fn \in {} |-> <<>>]

(* settings.py lines 11-31, as written in the source *)
DEFAULT_SETTINGS ==
    [notifications |-> [weather |-> TRUE, news |-> TRUE, schedule |-> TRUE,
                        evening |-> TRUE, night |-> TRUE],
     news_categories |-> <<"AI", "Tech", "EdTech">>,
     location |-> [city |-> "Seoul", country_code |-> "KR"],
     notification_times |-> [weather |-> "07:00", news |-> "08:00",
                             schedule |-> "09:30", evening |-> "18:00",
                             night |-> "21:00"]]

(* no update_gist call is in progress *)
NoUpdate ==
    [pc |-> "idle", gist_id |-> NoGist, filename |-> "", content |-> <<>>,
     files |-> <<>>, before |-> <<>>, ok |-> FALSE]
NoCmd ==
    [kind |-> "none", fetch |-> "none", facts |-> <<>>, llm |-> "none",
     llm_calls |-> 0, status |-> "idle", exit |-> 0]

(* A configured gist id names a gist that exists; it holds the settings
   blob (get_news_gist_id falls back to SETTINGS_GIST_ID).                 *)
Init ==
    /\ now = 0
    /\ gist_token \in BOOLEAN
    /\ env_gist_id \in {NoGist, EnvGist}
    /\ gists = [g \in {env_gist_id} \ {NoGist} |->
                   [f \in {SettingsFile} |-> JsonDumps([settings |-> "saved"])]]
    /\ created = 0
    /\ first_seen = [g \in {env_gist_id} \ {NoGist} |-> <<>>]
    /\ last_save = NoSave
    /\ loaded = NoLoad
    /\ run = NoRun
    /\ cmd = NoCmd
    /\ sends = <<>>
    /\ last_call = NoCall
    /\ default_settings = DEFAULT_SETTINGS
    /\ inflight = NoUpdate

---------------------------------------------------------------------------
(* Operations on the Dedup Store *)

(* Days pass between two scheduled runs *)
Idle ==
    /\ ~loaded.called /\ ~run.called /\ cmd.status = "idle"
    /\ DOMAIN last_call = {}

Tick ==
    /\ Idle
    /\ \E d \in TickSteps :
        /\ now + d <= MaxNow
        /\ now' = now + d
        /\ loaded' = NoLoad
        /\ run' = NoRun
        /\ UNCHANGED <<procVars, gist_token, env_gist_id, gists, created, first_seen,
                       last_save, cmd, sends, last_call>>

(* The keys a caller holds: none, or the configured id (the id a save
   returns is kept nowhere)                                                *)
Keys == {NoGist, env_gist_id}

(* A call of _get_seen_news_urls(k) *)
LoadSeen ==
    /\ Idle
    /\ \E k \in Keys, http_ok \in BOOLEAN :
        /\ loaded' = [called |-> TRUE, key |-> k,
                      urls |-> GetSeenNewsUrls(k, http_ok),
                      failed |-> gist_token /\ k # NoGist /\ ~http_ok,
                      at |-> now]
        /\ run' = NoRun
        /\ UNCHANGED <<procVars, now, gist_token, env_gist_id, gists, created,
                       first_seen, last_save, cmd, sends, last_call>>

(* A call of _save_seen_news_urls(urls, k) *)
SaveSeen ==
    /\ Idle
    /\ \E k \in Keys, urls \in SUBSET Urls, http \in HttpOutcomes :
        /\ http.load
        /\ urls # {}
        /\ LET s == SaveSeenNewsUrls(urls, k, http)
           IN  /\ gists' = s.gists
               /\ created' = s.created
               /\ first_seen' = FirstSeenAfter(s.gists)
               /\ last_save' = [called |-> TRUE, key |-> k, urls |-> urls,
                                id |-> s.id, at |-> now,
                                before |-> LiveUrlsOf(k, gists),
                                after |-> UrlsOf(k, s.gists)]
        /\ loaded' = NoLoad
        /\ run' = NoRun
        /\ UNCHANGED <<procVars, now, gist_token, env_gist_id, cmd, sends, last_call>>

(* A call of get_news_briefing(max_items) *)
Briefing ==
    /\ Idle
    /\ \E all_news \in RawFetches, max_items \in MaxItemsChoices,
       http \in HttpOutcomes :
        LET r == GetNewsBriefing(all_news, max_items, NoGist, http)
        IN  /\ run' = r
            /\ gists' = r.store.gists
            /\ created' = r.store.created
            /\ first_seen' = FirstSeenAfter(r.store.gists)
            /\ last_save' = NoSave
            /\ loaded' = NoLoad
            /\ UNCHANGED <<procVars, now, gist_token, env_gist_id, cmd, sends, last_call>>

(* The caller is done with what the last call returned *)
Return ==
    /\ ~Idle
    /\ loaded' = NoLoad
    /\ run' = NoRun
    /\ cmd' = NoCmd
    /\ sends' = <<>>
    /\ last_call' = NoCall
    /\ UNCHANGED <<procVars, now, gist_token, env_gist_id, gists, created, first_seen,
                   last_save>>

(* Direct use of the Dedup Store *)
NextStore == Tick \/ LoadSeen \/ SaveSeen \/ Return

SpecStore == Init /\ [][NextStore]_vars

(* Runs of get_news_briefing over the days *)
NextNews == Tick \/ Briefing \/ Return

SpecNews == Init /\ [][NextNews]_vars

---------------------------------------------------------------------------
(* Python values.  A dict is a function from the keys it holds; a value
   that may be None carries a tag, so that "key missing" (not in DOMAIN)
   and "key present with None" are different things, as for dict.get.      *)

None == [t |-> "none"]
Num(n) == [t |-> "int", v |-> n]
Str(x) == [t |-> "str", v |-> x]
Bool(b) == [t |-> "bool", v |-> b]
List(items) == [t |-> "list", v |-> items]
Dict(d) == [t |-> "dict", v |-> d]

EmptyDict == [k \in {} |-> None]

(* d.get(key, default) *)
Get(d, key, default) == IF key \in DOMAIN d THEN d[key] ELSE default

(* bool(x) *)
Truthy(x) ==
    CASE x.t = "none" -> FALSE
      [] x.t = "int"  -> x.v # 0
      [] x.t = "str"  -> x.v # ""
      [] x.t = "bool" -> x.v
      [] x.t = "list" -> x.v # <<>>
      [] x.t = "dict" -> DOMAIN x.v # {}

---------------------------------------------------------------------------
(* bot/messages.py: the deterministic formatters.  A message is the list of
   its paragraphs (the parts that "\n\n" separates); a formatter returns
   its message, or raises (TypeError / AttributeError).                     *)

UmbrellaThreshold == 30      \* rain_prob >= 30

Message(paragraphs) == [ok |-> TRUE, text |-> paragraphs]
FormatterRaises == [ok |-> FALSE, text |-> <<>>]

BringUmbrella == "umbrella:bring"          \* "우산을 챙기세요!"
NoUmbrella == "umbrella:not_needed"        \* "우산은 필요 없어요"

UmbrellaLine(rain_prob) ==
    IF rain_prob >= UmbrellaThreshold THEN BringUmbrella ELSE NoUmbrella

(* the umbrella rule with the boundary on the wrong side *)
FormatWeatherMessageAbove(weather_data) ==
    LET rain_prob == Get(weather_data, "rain_probability", Num(0))
    IN  IF rain_prob.t # "int" THEN FormatterRaises
        ELSE Message(<<"weather:greeting", "weather:facts",
                       IF rain_prob.v > UmbrellaThreshold
                       THEN BringUmbrella ELSE NoUmbrella>>)

(* format_weather_message(weather_data): None >= 30 is a TypeError *)
FormatWeatherMessage(weather_data) ==
    LET rain_prob == Get(weather_data, "rain_probability", Num(0))
    IN  IF rain_prob.t # "int" THEN FormatterRaises
        ELSE Message(<<"weather:greeting", "weather:facts",
                       UmbrellaLine(rain_prob.v)>>)

(* rain_probability of one side of the commute, 0 when the side is absent *)
SideRain(weather) ==
    IF Truthy(weather) THEN Get(weather.v, "rain_probability", Num(0))
    ELSE Num(0)

Max(a, b) == IF a >= b THEN a ELSE b

(* format_commute_message(commute_data) *)
FormatCommuteMessage(commute_data) ==
    LET home_weather == Get(commute_data, "home", None)
        office_weather == Get(commute_data, "office", None)
        home_location == Get(commute_data, "home_location", Dict(EmptyDict))
        office_location == Get(commute_data, "office_location", Dict(EmptyDict))
    IN  IF home_location.t # "dict" \/ office_location.t # "dict"
        THEN FormatterRaises                    \* None.get(...)
        ELSE IF SideRain(home_weather).t # "int"
                \/ SideRain(office_weather).t # "int"
        THEN FormatterRaises                    \* max(None, 0)
        ELSE Message(
               <<"commute:title",
                 IF Truthy(home_weather) THEN "commute:home"
                 ELSE "commute:home_unavailable",
                 IF Truthy(office_weather) THEN "commute:office"
                 ELSE "commute:office_unavailable",
                 UmbrellaLine(Max(SideRain(home_weather).v,
                                  SideRain(office_weather).v))>>)

(* format_news_message(news_items): the header and one paragraph per item *)
FormatNewsMessage(news_items) ==
    Message(<<"news:header">>
            \o [i \in 1..Min(5, Len(news_items)) |-> news_items[i].url])

(* format_schedule_message(events) *)
FormatScheduleMessage(events) ==
    IF ~Truthy(events) THEN Message(<<"schedule:title", "schedule:none">>)
    ELSE Message(<<"schedule:title", "schedule:events">>)

(* format_evening_message(briefing) *)
FormatEveningMessageSilent(briefing) ==
    LET schedule == Get(briefing, "schedule", Dict(EmptyDict))
        recommendations == Get(briefing, "recommendations", List(<<>>))
    IN  IF schedule.t # "dict" THEN FormatterRaises      \* None.get(...)
        ELSE LET evening_events == Get(schedule.v, "evening_events", List(<<>>))
                 tomorrow_preview == Get(schedule.v, "tomorrow_preview", List(<<>>))
             IN  Message(
                   <<"evening:title">>
                   \o (IF Truthy(evening_events) THEN <<"evening:events">>
                       ELSE <<>>)
                   \o (IF Truthy(tomorrow_preview) THEN <<"evening:tomorrow">>
                       ELSE <<>>)
                   \o (IF Truthy(recommendations)
                       THEN <<"evening:recommendations">> ELSE <<>>)
                   \o <<"evening:closing">>)

FormatEveningMessage(briefing) ==
    LET schedule == Get(briefing, "schedule", Dict(EmptyDict))
        recommendations == Get(briefing, "recommendations", List(<<>>))
    IN  IF schedule.t # "dict" THEN FormatterRaises      \* None.get(...)
        ELSE LET evening_events == Get(schedule.v, "evening_events", List(<<>>))
                 tomorrow_preview == Get(schedule.v, "tomorrow_preview", List(<<>>))
             IN  Message(
                   <<"evening:title">>
                   \o (IF Truthy(evening_events) THEN <<"evening:events">>
                       ELSE <<"evening:none_tonight">>)
                   \o (IF Truthy(tomorrow_preview) THEN <<"evening:tomorrow">>
                       ELSE <<>>)
                   \o (IF Truthy(recommendations)
                       THEN <<"evening:recommendations">> ELSE <<>>)
                   \o <<"evening:closing">>)

(* format_project_message(reminders): str + None is a TypeError *)
FormatProjectMessage(reminders) ==
    LET projects == Get(reminders, "projects", List(<<>>))
        has_projects == Get(reminders, "has_projects", Bool(FALSE))
    IN  IF ~Truthy(has_projects) \/ ~Truthy(projects)
        THEN LET fallback_message ==
                     Get(reminders, "message", Str("project:placeholder"))
             IN  IF fallback_message.t # "str" THEN FormatterRaises
                 ELSE Message(<<"project:title", fallback_message.v>>)
        ELSE Message(<<"project:title", "project:count">>
                     \o [i \in 1..Min(5, Len(projects.v)) |-> "project:item"]
                     \o <<"project:closing">>)

---------------------------------------------------------------------------
(* services/evening.py, services/calendar.py *)

MaxToday == 2          \* events of today the calendar returns
MaxTomorrow == 4       \* events of tomorrow the calendar returns

EveningHour == 18      \* now.replace(hour=18, ...)
TomorrowPreviewMax == 3    \* [...][:3]

(* The "start" of a formatted event: None when the provider gave neither
   dateTime nor date, a date for an all-day event, or a dateTime.  hour is
   the hour of the instant in Korea Standard Time, tz the offset notation
   the provider wrote it with ("+09:00", "Z"); "naive" is a dateTime
   without offset.                                                         *)
NoStart == [kind |-> "none", hour |-> 0, tz |-> "none"]
AllDay == [kind |-> "date", hour |-> 0, tz |-> "none"]
DateTime(hour, tz) == [kind |-> "dateTime", hour |-> hour, tz |-> tz]

Event(start, important) == [start |-> start, important |-> important]

(* event_time >= evening_start, where evening_start comes from the naive
   datetime.now(): comparing an offset-aware datetime with it raises
   TypeError                                                               *)
AtOrAfterEveningStart(start) ==
    IF start.tz # "naive" THEN "TypeError"
    ELSE IF start.hour >= EveningHour THEN "yes" ELSE "no"

(* lines 26-38: the try / bare except around one event *)
IsEveningEvent(event) ==
    LET start == event.start
    IN  IF start.kind = "none" THEN FALSE
        ELSE IF start.kind = "dateTime"
        THEN AtOrAfterEveningStart(start) = "yes"
        ELSE TRUE

IsImportant(event) == event.important

(* get_evening_schedule, given what get_today_events and
   get_tomorrow_events returned                                            *)
GetEveningSchedule(today_events, tomorrow_events) ==
    LET evening_events == SelectSeq(today_events, IsEveningEvent)
        important == SelectSeq(tomorrow_events, IsImportant)
        tomorrow_important ==
            SubSeq(important, 1, Min(TomorrowPreviewMax, Len(important)))
    IN  [evening_events |-> List(evening_events),
         tomorrow_preview |-> List(tomorrow_important),
         has_evening_plans |-> Bool(Len(evening_events) > 0),
         has_tomorrow_important |-> Bool(Len(tomorrow_important) > 0)]

(* get_content_recommendations: the two placeholder recommendations *)
GetContentRecommendations == <<"article", "video">>

(* get_evening_briefing *)
GetEveningBriefing(today_events, tomorrow_events) ==
    [schedule |-> Dict(GetEveningSchedule(today_events, tomorrow_events)),
     recommendations |-> List(GetContentRecommendations)]

---------------------------------------------------------------------------
(* main.py: the scheduled notification commands *)

(* The fixed texts sent when there is nothing to format *)
NewsProblemMessage == <<"news:title", "news:problem">>
NewsErrorMessage == <<"news:title", "news:error">>
NoEventsMessage == <<"schedule:title", "schedule:none">>

(* services/llm.py generate_text: the text of the model, or "" (here <<>>)
   when the model returns nothing or the call fails                        *)
LlmText == <<"llm:text">>
LlmOutcomes == {"text", "empty", "fails"}
GenerateText(llm) == IF llm = "text" THEN LlmText ELSE <<>>

(* "if enhanced_message:" left out *)
PreferEnhancedUnchecked(enhanced_message, message) == enhanced_message

(* if enhanced_message: message = enhanced_message *)
PreferEnhanced(enhanced_message, message) ==
    IF enhanced_message # <<>> THEN enhanced_message ELSE message

(* the combination without the split: the whole message is kept *)
CombineWithWhole(enhanced_message, message) ==
    IF Len(message) > 1 THEN enhanced_message \o message ELSE message

(* enhanced + "\n\n" + message.split("\n\n", 1)[-1] if "\n\n" in message
   else message                                                            *)
CombineWithTail(enhanced_message, message) ==
    IF Len(message) > 1 THEN enhanced_message \o Tail(message) ELSE message

(* send_message_sync that tries once more after a failed delivery *)
SendMessageSyncRetrying(log, text, delivered) ==
    IF delivered THEN Append(log, [text |-> text, ok |-> TRUE])
    ELSE Append(Append(log, [text |-> text, ok |-> FALSE]),
                [text |-> text, ok |-> FALSE])

(* send_message_sync: one call of the transport, which reports a boolean
   (send_message catches every exception)                                  *)
SendMessageSync(log, text, delivered) ==
    Append(log, [text |-> text, ok |-> delivered])

(* What an invocation fetched and asked of the model *)
Call(kind, fetch, facts, llm) ==
    [kind |-> kind, fetch |-> fetch, facts |-> facts, llm |-> llm.outcome,
     llm_calls |-> llm.calls]

NoLlm == [outcome |-> "none", calls |-> 0]
OneLlm(llm) == [outcome |-> llm, calls |-> 1]

Returned(call, log, exit) ==
    [cmd |-> [kind |-> call.kind, fetch |-> call.fetch, facts |-> call.facts,
              llm |-> call.llm, llm_calls |-> call.llm_calls,
              status |-> "returned", exit |-> exit],
     sends |-> log]

(* An exception leaves the command: the interpreter ends with status 1 *)
Raised(call, log) ==
    [cmd |-> [kind |-> call.kind, fetch |-> call.fetch, facts |-> call.facts,
              llm |-> call.llm, llm_calls |-> call.llm_calls,
              status |-> "raised", exit |-> 1],
     sends |-> log]

ExitOf(success) == IF success THEN 0 ELSE 1

(* send the message and return 0 or 1 by the result *)
SendAndReturn(call, message, delivered) ==
    Returned(call, SendMessageSync(<<>>, message, delivered), ExitOf(delivered))

(* weather_command; weather_data is what get_weather returned *)
WeatherCommand(fetch, weather_data, llm, delivered) ==
    IF fetch = "raises"
    THEN Returned(Call("weather", fetch, EmptyDict, NoLlm), <<>>, 1)
    ELSE IF ~Truthy(weather_data)
    THEN Returned(Call("weather", fetch, EmptyDict, NoLlm), <<>>, 1)
    ELSE LET call == Call("weather", fetch, weather_data.v, OneLlm(llm))
             llm_message == GenerateText(llm)
             formatted == FormatWeatherMessage(weather_data.v)
         IN  IF llm_message = <<>> /\ ~formatted.ok
             THEN Returned(call, <<>>, 1)
             ELSE SendAndReturn(call,
                                PreferEnhanced(llm_message, formatted.text),
                                delivered)

(* news_command, given what get_news_briefing returned and the number of
   headline calls it made                                                  *)
NewsCommand(fetch, news_items, llm_calls, delivered) ==
    LET call == Call("news", fetch, EmptyDict,
                     [outcome |-> IF llm_calls > 0 THEN "headlines" ELSE "none",
                      calls |-> llm_calls])
    IN  IF fetch = "raises"
        THEN Returned(call, SendMessageSync(<<>>, NewsErrorMessage, delivered), 1)
        ELSE IF news_items = <<>>
        THEN SendAndReturn(call, NewsProblemMessage, delivered)
        ELSE SendAndReturn(call, FormatNewsMessage(news_items).text, delivered)

(* schedule_command; schedule_data is what get_schedule_briefing returned *)
ScheduleCommand(fetch, schedule_data, llm, delivered) ==
    IF fetch = "raises"
    THEN Raised(Call("schedule", fetch, EmptyDict, NoLlm), <<>>)
    ELSE LET events == Get(schedule_data, "events", List(<<>>))
             enhance == Get(schedule_data, "important_count", Num(0)).v > 0
             formatted == FormatScheduleMessage(events)
         IN  IF ~Truthy(events)
             THEN SendAndReturn(Call("schedule", fetch, schedule_data, NoLlm),
                                NoEventsMessage, delivered)
             ELSE IF enhance
             THEN SendAndReturn(
                      Call("schedule", fetch, schedule_data, OneLlm(llm)),
                      PreferEnhanced(GenerateText(llm), formatted.text),
                      delivered)
             ELSE SendAndReturn(Call("schedule", fetch, schedule_data, NoLlm),
                                formatted.text, delivered)

(* evening_command; briefing is what get_evening_briefing returned *)
EveningCommand(fetch, briefing, llm, delivered) ==
    IF fetch = "raises"
    THEN Raised(Call("evening", fetch, EmptyDict, NoLlm), <<>>)
    ELSE LET formatted == FormatEveningMessage(briefing)
             schedule_info == Get(briefing, "schedule", Dict(EmptyDict)).v
             enhance ==
                 \/ Truthy(Get(schedule_info, "has_evening_plans", None))
                 \/ Truthy(Get(schedule_info, "has_tomorrow_important", None))
             enhanced_message == GenerateText(llm)
         IN  IF ~formatted.ok
             THEN Raised(Call("evening", fetch, briefing, NoLlm), <<>>)
             ELSE IF enhance
             THEN SendAndReturn(
                      Call("evening", fetch, briefing, OneLlm(llm)),
                      IF enhanced_message # <<>>
                      THEN CombineWithTail(enhanced_message, formatted.text)
                      ELSE formatted.text,
                      delivered)
             ELSE SendAndReturn(Call("evening", fetch, briefing, NoLlm),
                                formatted.text, delivered)

(* night_command; reminders is what get_project_reminders returned *)
NightCommand(fetch, reminders, llm, delivered) ==
    IF fetch = "raises"
    THEN Raised(Call("night", fetch, EmptyDict, NoLlm), <<>>)
    ELSE LET formatted == FormatProjectMessage(reminders)
             enhance == Truthy(Get(reminders, "has_projects", None))
             enhanced_message == GenerateText(llm)
         IN  IF ~formatted.ok
             THEN Raised(Call("night", fetch, reminders, NoLlm), <<>>)
             ELSE IF enhance
             THEN SendAndReturn(
                      Call("night", fetch, reminders, OneLlm(llm)),
                      IF enhanced_message # <<>>
                      THEN CombineWithTail(enhanced_message, formatted.text)
                      ELSE formatted.text,
                      delivered)
             ELSE SendAndReturn(Call("night", fetch, reminders, NoLlm),
                                formatted.text, delivered)

(* commute_command; commute_data is what get_commute_weather returned *)
CommuteCommand(fetch, commute_data, llm, delivered) ==
    IF fetch = "raises"
    THEN Returned(Call("commute", fetch, EmptyDict, NoLlm), <<>>, 1)
    ELSE LET home_weather == Get(commute_data, "home", None)
             office_weather == Get(commute_data, "office", None)
             formatted == FormatCommuteMessage(commute_data)
             enhance == Truthy(home_weather) /\ Truthy(office_weather)
         IN  IF ~Truthy(home_weather) /\ ~Truthy(office_weather)
             THEN Returned(Call("commute", fetch, commute_data, NoLlm), <<>>, 1)
             ELSE IF ~formatted.ok
             THEN Returned(Call("commute", fetch, commute_data, NoLlm), <<>>, 1)
             ELSE IF enhance
             THEN SendAndReturn(
                      Call("commute", fetch, commute_data, OneLlm(llm)),
                      PreferEnhanced(GenerateText(llm), formatted.text),
                      delivered)
             ELSE SendAndReturn(Call("commute", fetch, commute_data, NoLlm),
                                formatted.text, delivered)

---------------------------------------------------------------------------
(* What the source adapters hand to the commands *)

(* get_weather: rain_probability is 0 or 50 (30, 60 from the web page) *)
AdapterWeather == {Dict([rain_probability |-> Num(r)]) : r \in {0, 30, 50}}

(* get_location *)
AdapterLocation == Dict([display_name |-> Str("place")])

(* get_commute_weather: each side is a weather record or None *)
AdapterCommute ==
    {[home |-> h, office |-> o,
      home_location |-> AdapterLocation, office_location |-> AdapterLocation] :
        h \in {None, Dict([rain_probability |-> Num(0)]),
               Dict([rain_probability |-> Num(50)])},
        o \in {None, Dict([rain_probability |-> Num(0)]),
               Dict([rain_probability |-> Num(50)])}}

(* get_schedule_briefing *)
AdapterSchedules ==
    {[events |-> List(evs), count |-> Num(Len(evs)),
      important_count |->
          Num(Cardinality({i \in 1..Len(evs) : evs[i].important}))] :
        evs \in UNION {[1..n -> {Event(AllDay, FALSE), Event(AllDay, TRUE)}] :
                          n \in 0..2}}

(* get_today_events / get_tomorrow_events on an evening run *)
AdapterToday ==
    {<<>>, <<Event(AllDay, FALSE)>>, <<Event(DateTime(19, "+09:00"), FALSE)>>}
AdapterTomorrow == {<<>>, <<Event(AllDay, TRUE)>>}

(* get_project_reminders: the placeholder, or the active projects *)
AdapterReminders ==
    {[projects |-> List(<<>>), has_projects |-> Bool(FALSE),
      message |-> Str("project:placeholder")]}
    \cup {[projects |-> List([i \in 1..n |-> "project"]),
           has_projects |-> Bool(n > 0), count |-> Num(n)] : n \in 0..2}

---------------------------------------------------------------------------
(* One invocation of each command by the scheduler *)

Finish(outcome) ==
    /\ cmd' = outcome.cmd
    /\ sends' = outcome.sends

Weather ==
    /\ Idle
    /\ \E fetch \in {"data", "unavailable", "raises"}, llm \in LlmOutcomes,
       delivered \in BOOLEAN :
        \E weather_data \in IF fetch = "data" THEN AdapterWeather ELSE {None} :
            /\ Finish(WeatherCommand(fetch, weather_data, llm, delivered))
            /\ UNCHANGED <<procVars, storeVars, newsVars, last_call>>

News ==
    /\ Idle
    /\ \E fetch \in {"fetched", "raises"}, delivered \in BOOLEAN :
        IF fetch = "raises"
        THEN /\ Finish(NewsCommand(fetch, <<>>, 0, delivered))
             /\ UNCHANGED <<procVars, gists, created, first_seen, run>>
        ELSE \E all_news \in RawFetches, http \in HttpOutcomes :
                LET r == GetNewsBriefing(all_news, NewsCommandMaxItems,
                                         NoGist, http)
                IN  /\ Finish(NewsCommand(fetch, r.result, r.llm_calls,
                                          delivered))
                    /\ run' = r
                    /\ gists' = r.store.gists
                    /\ created' = r.store.created
                    /\ first_seen' = FirstSeenAfter(r.store.gists)
    /\ UNCHANGED <<procVars, now, gist_token, env_gist_id, last_save, loaded, last_call>>

Schedule ==
    /\ Idle
    /\ \E fetch \in {"data", "raises"}, llm \in LlmOutcomes, delivered \in BOOLEAN :
        \E schedule_data \in IF fetch = "data" THEN AdapterSchedules
                             ELSE {EmptyDict} :
            /\ Finish(ScheduleCommand(fetch, schedule_data, llm, delivered))
            /\ UNCHANGED <<procVars, storeVars, newsVars, last_call>>

Evening ==
    /\ Idle
    /\ \E fetch \in {"data", "raises"}, llm \in LlmOutcomes, delivered \in BOOLEAN :
        \E today_events \in IF fetch = "data" THEN AdapterToday ELSE {<<>>},
           tomorrow_events \in IF fetch = "data" THEN AdapterTomorrow ELSE {<<>>} :
            /\ Finish(EveningCommand(fetch,
                          GetEveningBriefing(today_events, tomorrow_events),
                          llm, delivered))
            /\ UNCHANGED <<procVars, storeVars, newsVars, last_call>>

Night ==
    /\ Idle
    /\ \E fetch \in {"data", "raises"}, llm \in LlmOutcomes, delivered \in BOOLEAN :
        \E reminders \in IF fetch = "data" THEN AdapterReminders
                         ELSE {EmptyDict} :
            /\ Finish(NightCommand(fetch, reminders, llm, delivered))
            /\ UNCHANGED <<procVars, storeVars, newsVars, last_call>>

Commute ==
    /\ Idle
    /\ \E fetch \in {"data", "raises"}, llm \in LlmOutcomes, delivered \in BOOLEAN :
        \E commute_data \in IF fetch = "data" THEN AdapterCommute
                            ELSE {EmptyDict} :
            /\ Finish(CommuteCommand(fetch, commute_data, llm, delivered))
            /\ UNCHANGED <<procVars, storeVars, newsVars, last_call>>

NextCmd ==
    Tick \/ Weather \/ News \/ Schedule \/ Evening \/ Night \/ Commute \/ Return

SpecCmd == Init /\ [][NextCmd]_vars

---------------------------------------------------------------------------
(* utils/config.py, utils/monitoring.py *)

Unset == "<unset>"                 \* os.getenv gives None
EnvValues == {Unset, "", "secret"}

Environments ==
    [TELEGRAM_TOKEN : EnvValues, TELEGRAM_CHAT_ID : EnvValues,
     GEMINI_API_KEY : EnvValues, OPENWEATHER_API_KEY : EnvValues]

(* config.py lines 18-33: get_env raises ValueError for an unset variable
   without default; one try covers both Telegram variables                 *)
Config(env) ==
    LET telegram_set ==
            env.TELEGRAM_TOKEN # Unset /\ env.TELEGRAM_CHAT_ID # Unset
    IN  [TELEGRAM_TOKEN |-> IF telegram_set THEN env.TELEGRAM_TOKEN ELSE "",
         TELEGRAM_CHAT_ID |-> IF telegram_set THEN env.TELEGRAM_CHAT_ID ELSE "",
         GEMINI_API_KEY |->
             IF env.GEMINI_API_KEY # Unset THEN env.GEMINI_API_KEY ELSE "",
         OPENWEATHER_API_KEY |->
             IF env.OPENWEATHER_API_KEY # Unset THEN env.OPENWEATHER_API_KEY
             ELSE ""]

(* check_health *)
CheckHealth(config) ==
    [telegram |-> config.TELEGRAM_TOKEN # "",
     gemini |-> config.GEMINI_API_KEY # "",
     weather |-> config.OPENWEATHER_API_KEY # ""]

CriticalServices == {"telegram", "gemini"}

(* health_check *)
HealthCheck(config) ==
    LET health == CheckHealth(config)
    IN  \A service \in CriticalServices : health[service]

---------------------------------------------------------------------------
(* utils/settings.py: the settings document, kept in settings.json of a
   gist.  A document is a function over the keys it holds; the nested
   sections are functions over theirs.                                     *)

(* get_settings_gist_id: os.getenv("SETTINGS_GIST_ID", "") *)
GetSettingsGistId(settings_gist_id) ==
    IF settings_gist_id = Unset THEN "" ELSE settings_gist_id

(* dict.copy() followed by dict.update(other): the keys of other replace
   those of the copy, whole value by whole value                           *)
Update(copy, other) ==
    [k \in DOMAIN copy \cup DOMAIN other |->
        IF k \in DOMAIN other THEN other[k] ELSE copy[k]]

(* load_settings(gist_id), given the SETTINGS_GIST_ID of the environment
   and what load_state(gist_id, "settings.json") returns (None, or the
   parsed blob)                                                            *)
LoadSettings(gist_id, settings_gist_id, settings) ==
    LET id == IF gist_id = "" THEN GetSettingsGistId(settings_gist_id)
              ELSE gist_id
    IN  IF id = "" THEN default_settings
        ELSE IF settings # None /\ DOMAIN settings # {}
        THEN Update(default_settings, settings)
        ELSE default_settings

---------------------------------------------------------------------------
(* news.py lines 332-377: the three stages that fill all_news.  A stage
   asks its topics in order; yields[i] is what the i-th topic's fetch
   returns (get_news_from_api and get_news_from_rss catch their own
   exceptions and return []).                                              *)

Topics == 3                \* the length of each topic list

(* one stage: extend all_news topic by topic, stop at max_items * 2 *)
RECURSIVE AskTopics(_, _, _, _)
AskTopics(yields, i, max_items, acc) ==
    IF i > Len(yields) THEN acc
    ELSE LET news == yields[i]
             more == [all_news |-> acc.all_news \o news, asked |-> i]
         IN  IF Len(more.all_news) >= max_items * 2 THEN more
             ELSE AskTopics(yields, i + 1, max_items, more)

Stage(yields, max_items) ==
    AskTopics(yields, 1, max_items, [all_news |-> <<>>, asked |-> 0])

NotAsked == [all_news |-> <<>>, asked |-> 0]

(* the stages with the RSS fallback consulted whatever the API returned *)
FetchAllNewsAlwaysRss(key_set, api, rss_recent, rss_any, max_items) ==
    LET a == IF key_set THEN Stage(api, max_items) ELSE NotAsked
        r == Stage(rss_recent, max_items)
        u == IF r.all_news = <<>> THEN Stage(rss_any, max_items) ELSE NotAsked
    IN  [all_news |-> a.all_news \o r.all_news \o u.all_news,
         api_asked |-> a.asked, recent_asked |-> r.asked,
         any_asked |-> u.asked]

(* all_news after the stages, and how many topics each stage asked *)
FetchAllNews(key_set, api, rss_recent, rss_any, max_items) ==
    LET a == IF key_set THEN Stage(api, max_items) ELSE NotAsked
        r == IF a.all_news = <<>> THEN Stage(rss_recent, max_items)
             ELSE NotAsked
        u == IF a.all_news = <<>> /\ r.all_news = <<>>
             THEN Stage(rss_any, max_items) ELSE NotAsked
    IN  [all_news |-> a.all_news \o r.all_news \o u.all_news,
         api_asked |-> a.asked, recent_asked |-> r.asked,
         any_asked |-> u.asked]

---------------------------------------------------------------------------
(* services/projects.py: get_project_reminders.  The vector store (Qdrant)
   is asked first, the notes vault (Obsidian) second; what the vault
   returned is then synced into the vector store.                          *)

RemindersMax == 5          \* active_projects[:5]

Project(title, status) == [title |-> title, status |-> status]
ActiveStatuses == {"active", "", "in-progress"}
IsActive(project) == project.status \in ActiveStatuses

ProjectPlaceholder ==
    [projects |-> List(<<>>), has_projects |-> Bool(FALSE),
     message |-> Str("project:placeholder")]

(* lines 475-495: the value returned for the projects found *)
RemindersOf(projects) ==
    IF projects = <<>> THEN ProjectPlaceholder
    ELSE LET active_projects == SelectSeq(projects, IsActive)
         IN  [projects |-> List(SubSeq(active_projects, 1,
                               Min(RemindersMax, Len(active_projects)))),
              has_projects |-> Bool(Len(active_projects) > 0),
              count |-> Num(Len(active_projects))]

(* get_project_reminders that syncs whenever the store is configured *)
GetProjectRemindersAlwaysSyncing(configured, qdrant_projects, obsidian_projects, sync_ok) ==
    LET found == IF configured THEN qdrant_projects ELSE <<>>
        scanned == found = <<>>
        projects == IF scanned THEN obsidian_projects ELSE found
    IN  [calls |-> (IF configured THEN <<"search">> ELSE <<>>)
                   \o (IF scanned THEN <<"scan">> ELSE <<>>)
                   \o (IF configured THEN <<"sync">> ELSE <<>>),
         value |-> RemindersOf(projects)]

(* get_project_reminders: the sources it called, in order, and the value
   it returns; sync_ok is what sync_projects_to_qdrant returns             *)
GetProjectReminders(configured, qdrant_projects, obsidian_projects, sync_ok) ==
    LET found == IF configured THEN qdrant_projects ELSE <<>>
        scanned == found = <<>>
        projects == IF scanned THEN obsidian_projects ELSE found
        synced == scanned /\ obsidian_projects # <<>> /\ configured
    IN  [calls |-> (IF configured THEN <<"search">> ELSE <<>>)
                   \o (IF scanned THEN <<"scan">> ELSE <<>>)
                   \o (IF synced THEN <<"sync">> ELSE <<>>),
         value |-> RemindersOf(projects)]

---------------------------------------------------------------------------
(* services/weather.py: the keyed provider (OpenWeatherMap) and the no-key
   web provider (wttr.in).  A provider's answer is "ok" or the exception
   its request or its parsing raised.                                      *)

ProviderOutcomes == {"ok", "RequestException", "KeyError", "Exception"}

ApiWeather == Dict([rain_probability |-> Num(50), city |-> Str("api")])
WebWeather == Dict([rain_probability |-> Num(30), city |-> Str("web")])

(* get_weather_from_web: every exception is caught and gives None *)
GetWeatherFromWeb(web) == IF web = "ok" THEN WebWeather ELSE None

(* get_weather that gives up when the keyed provider failed *)
GetWeatherWithoutFallback(key_set, api, web) ==
    IF key_set
    THEN [calls |-> <<"api">>,
          value |-> IF api = "ok" THEN ApiWeather ELSE None]
    ELSE [calls |-> <<"web">>, value |-> GetWeatherFromWeb(web)]

(* get_weather: the providers it called, in order, and what it returns *)
GetWeather(key_set, api, web) ==
    IF key_set /\ api = "ok"
    THEN [calls |-> <<"api">>, value |-> ApiWeather]
    ELSE [calls |-> (IF key_set THEN <<"api">> ELSE <<>>) \o <<"web">>,
          value |-> GetWeatherFromWeb(web)]

---------------------------------------------------------------------------
(* Headlines: news.py lines 429-448 and llm.py summarize_news_headline.
   A text is the sequence of its characters.                               *)

HeadlineMaxChars == 40     \* max_chars=40
DescFallbackChars == 40    \* raw_desc[:40]

Whitespace == {" ", "\n", "\t"}
LineBreaks == {"\n"}
Quotes == {"\"", "'"}
Ellipsis == "..."           \* the one character U+2026

Rep(c, n) == [i \in 1..n |-> c]

(* text[:n] *)
Take(text, n) == SubSeq(text, 1, Min(n, Len(text)))

RECURSIVE LStrip(_)
LStrip(text) ==
    IF text # <<>> /\ Head(text) \in Whitespace THEN LStrip(Tail(text))
    ELSE text

RECURSIVE RStrip(_)
RStrip(text) ==
    IF text # <<>> /\ text[Len(text)] \in Whitespace
    THEN RStrip(SubSeq(text, 1, Len(text) - 1))
    ELSE text

(* str.strip() *)
Strip(text) == RStrip(LStrip(text))

(* _TAG_RE.sub(" ", t): "<", one or more characters other than ">", ">"
   becomes one space                                                       *)
RECURSIVE RemoveTags(_)
RemoveTags(text) ==
    IF text = <<>> THEN <<>>
    ELSE IF Head(text) = "<"
            /\ \E j \in 3..Len(text) :
                   /\ text[j] = ">"
                   /\ \A i \in 2..(j - 1) : text[i] # ">"
         THEN LET j == CHOOSE k \in 3..Len(text) :
                           /\ text[k] = ">"
                           /\ \A i \in 2..(k - 1) : text[i] # ">"
              IN  <<" ">> \o RemoveTags(SubSeq(text, j + 1, Len(text)))
         ELSE <<Head(text)>> \o RemoveTags(Tail(text))

(* re.sub(r"\s+", " ", t) *)
RECURSIVE CollapseWhitespace(_)
CollapseWhitespace(text) ==
    IF text = <<>> THEN <<>>
    ELSE IF Head(text) \in Whitespace
    THEN <<" ">> \o CollapseWhitespace(LStrip(text))
    ELSE <<Head(text)>> \o CollapseWhitespace(Tail(text))

(* _clean_text; the texts fetched here hold no HTML entity, so
   html.unescape leaves them as they are                                   *)
CleanText(text) ==
    IF text = <<>> THEN <<>>
    ELSE Strip(CollapseWhitespace(RemoveTags(Strip(text))))

(* the first line of text.splitlines() that is not blank, stripped *)
RECURSIVE FirstLine(_)
FirstLine(text) ==
    IF text = <<>> \/ Head(text) \in LineBreaks THEN <<>>
    ELSE <<Head(text)>> \o FirstLine(Tail(text))

RECURSIVE FirstNonEmptyLine(_)
FirstNonEmptyLine(text) ==
    IF text = <<>> THEN <<>>
    ELSE LET raw == FirstLine(text)
             candidate == Strip(raw)
         IN  IF candidate # <<>> THEN candidate
             ELSE IF Len(raw) = Len(text) THEN <<>>
             ELSE FirstNonEmptyLine(SubSeq(text, Len(raw) + 2, Len(text)))

(* summarize_news_headline(title, description, max_chars), given the text
   generate_text returns ("" when the call fails)                          *)
SummarizeNewsHeadline(title, description, max_chars, text) ==
    IF text = <<>> THEN <<>>
    ELSE LET first == FirstNonEmptyLine(text)
             unquoted ==
                 IF Len(first) >= 2 /\ first[1] \in Quotes
                    /\ first[Len(first)] \in Quotes
                 THEN Strip(SubSeq(first, 2, Len(first) - 1))
                 ELSE first
         IN  IF max_chars # 0 /\ Len(unquoted) > max_chars
             THEN IF max_chars <= 1 THEN Take(unquoted, max_chars)
                  ELSE RStrip(Take(unquoted, max_chars - 1)) \o <<Ellipsis>>
             ELSE unquoted

(* lines 434-446: the headline one item of unique_news gets *)
ItemHeadline(title, description, text) ==
    LET raw_title == CleanText(title)
        raw_desc == CleanText(description)
        headline == SummarizeNewsHeadline(Take(raw_title, 200),
                                          Take(raw_desc, 280),
                                          HeadlineMaxChars, text)
    IN  IF headline # <<>> THEN headline
        ELSE IF raw_title # <<>> THEN raw_title
        ELSE IF raw_desc # <<>> THEN Take(raw_desc, DescFallbackChars)
        ELSE <<>>

---------------------------------------------------------------------------
(* Direct calls of the formatters, of get_evening_schedule, of
   health_check and of load_settings, on empty, partial and full inputs    *)

Missing == [t |-> "missing"]       \* the key is not in the dict

(* the dict holding key with value x, or nothing when x is Missing *)
Opt(key, x) == IF x.t = "missing" THEN EmptyDict ELSE (key :> x)

RainChoices == {0, 29, 30, 31, 100}

WeatherInputs ==
    {Opt("rain_probability", x) :
        x \in {Missing, None} \cup {Num(r) : r \in RainChoices}}

SideInputs ==
    {Missing, None, Dict(EmptyDict),
     Dict([rain_probability |-> Num(29)]),
     Dict([rain_probability |-> Num(30)]),
     Dict([rain_probability |-> None])}

LocationInputs == {Missing, None, AdapterLocation}

CommuteInputs ==
    {Opt("home", h) @@ Opt("office", o) @@ Opt("home_location", l) :
        h \in SideInputs, o \in SideInputs, l \in LocationInputs}

EventLists ==
    {Missing, None, List(<<>>), List(<<Event(AllDay, FALSE)>>)}

ScheduleInputs == EventLists \ {Missing}

EveningInputs ==
    {Opt("schedule", sch) @@ Opt("recommendations", rec) :
        sch \in {Missing, None}
                \cup {Dict(Opt("evening_events", ev) @@ Opt("tomorrow_preview", tp)) :
                         ev \in EventLists, tp \in EventLists},
        rec \in {Missing, None, List(<<>>), List(GetContentRecommendations)}}

ProjectInputs ==
    {Opt("projects", pr) @@ Opt("has_projects", hp) @@ Opt("message", msg) :
        pr \in {Missing, None, List(<<>>), List(<<"project">>)},
        hp \in {Missing, None, Bool(FALSE), Bool(TRUE)},
        msg \in {Missing, None, Str("project:custom")}}

(* What the calendar returns: starts with the offset the provider writes *)
StartChoices ==
    {NoStart, AllDay}
    \cup {DateTime(h, tz) : h \in {17, 18}, tz \in {"+09:00", "Z"}}

TodayEvents ==
    UNION {[1..n -> {Event(st, FALSE) : st \in StartChoices}] : n \in 0..MaxToday}

TomorrowEvents ==
    UNION {[1..n -> {Event(AllDay, imp) : imp \in BOOLEAN}] : n \in 0..MaxTomorrow}

(* Persisted settings blobs: any of the four top-level keys may be there,
   and a nested section may hold all of its keys, one of them, or none     *)
Section(defaults, value) ==
    {[k \in keys |-> value] :
        keys \in {DOMAIN defaults, {}} \cup {{k} : k \in DOMAIN defaults}}

SettingsBlobs ==
    {[k \in keys |->
        CASE k = "notifications" -> n
          [] k = "news_categories" -> <<"AI">>
          [] k = "location" -> l
          [] k = "notification_times" -> t] :
        keys \in SUBSET DOMAIN DEFAULT_SETTINGS,
        n \in Section(DEFAULT_SETTINGS.notifications, FALSE),
        l \in Section(DEFAULT_SETTINGS.location, "Busan"),
        t \in Section(DEFAULT_SETTINGS.notification_times, "06:00")}

(* Titles and descriptions of fetched items, and texts of the text service *)
TitleTexts ==
    {Rep("a", 10), Rep("a", 40), Rep("a", 41),
     <<" ">> \o Rep("a", 12) \o <<"\n", "<", "b", ">">> \o Rep("c", 3)}

DescriptionTexts == {<<>>, Rep("d", 45)}

GeneratedTexts ==
    {<<>>, Rep("h", 20), Rep("h", 41),
     <<"\"">> \o Rep("h", 5) \o <<"\"">>,
     <<"\n", " ">> \o Rep("h", 3) \o <<"\n">> \o Rep("x", 2),
     Rep("h", 38) \o <<" ", " ", "h">>}

(* What one topic of a stage may return *)
ApiYields ==
    {<<>>, <<NewsItem("u1", Title("alpha story one", "plain"))>>,
     <<NewsItem("u1", Title("removed", "plain"))>>}
RecentYields == {<<>>, <<NewsItem("u2", Title("beta story two", "plain"))>>}
AnyYields == {<<>>, <<NewsItem("u2", Title("alpha story one", "shout"))>>}

(* the gist service answers every request, or fails the first read *)
SourceHttp == {h \in HttpOutcomes : h.merge /\ h.get /\ h.write}

(* What the vector store or the vault returns *)
ProjectLists ==
    UNION {[1..n -> {Project("p", "active"), Project("q", "done")}] :
              n \in 0..2}

(* the record of one call: the function's name, mapped to the arguments
   and the value returned                                                  *)
Called(fn, args, result) == fn :> [args |-> args, result |-> result]

CallOf(fn) == fn \in DOMAIN last_call
Args(fn) == last_call[fn].args
Result(fn) == last_call[fn].result

CallHealthCheck ==
    /\ Idle
    /\ \E env \in Environments :
            /\ last_call' = Called("health_check", env, HealthCheck(Config(env)))
            /\ UNCHANGED <<procVars, storeVars, newsVars, cmdVars>>

CallFormatWeather ==
    /\ Idle
    /\ \E weather_data \in WeatherInputs :
            /\ last_call' = Called("format_weather_message", weather_data,
                      FormatWeatherMessage(weather_data))
            /\ UNCHANGED <<procVars, storeVars, newsVars, cmdVars>>

CallFormatCommute ==
    /\ Idle
    /\ \E commute_data \in CommuteInputs :
            /\ last_call' = Called("format_commute_message", commute_data,
                      FormatCommuteMessage(commute_data))
            /\ UNCHANGED <<procVars, storeVars, newsVars, cmdVars>>

CallFormatNews ==
    /\ Idle
    /\ \E news_items \in RawFetches :
            /\ last_call' = Called("format_news_message", news_items,
                      FormatNewsMessage(news_items))
            /\ UNCHANGED <<procVars, storeVars, newsVars, cmdVars>>

CallFormatSchedule ==
    /\ Idle
    /\ \E events \in ScheduleInputs :
            /\ last_call' = Called("format_schedule_message", events,
                      FormatScheduleMessage(events))
            /\ UNCHANGED <<procVars, storeVars, newsVars, cmdVars>>

CallFormatEvening ==
    /\ Idle
    /\ \E briefing \in EveningInputs :
            /\ last_call' = Called("format_evening_message", briefing,
                      FormatEveningMessage(briefing))
            /\ UNCHANGED <<procVars, storeVars, newsVars, cmdVars>>

CallFormatProject ==
    /\ Idle
    /\ \E reminders \in ProjectInputs :
            /\ last_call' = Called("format_project_message", reminders,
                      FormatProjectMessage(reminders))
            /\ UNCHANGED <<procVars, storeVars, newsVars, cmdVars>>

CallGetEveningSchedule ==
    /\ Idle
    /\ \E today_events \in TodayEvents, tomorrow_events \in TomorrowEvents :
            /\ last_call' = Called("get_evening_schedule",
                      [today_events |-> today_events,
                       tomorrow_events |-> tomorrow_events],
                      GetEveningSchedule(today_events, tomorrow_events))
            /\ UNCHANGED <<procVars, storeVars, newsVars, cmdVars>>

CallLoadSettings ==
    /\ Idle
    /\ \E gist_id \in {"", "g1"}, settings_gist_id \in {Unset, "", "g1"},
           settings \in {None} \cup SettingsBlobs :
            /\ last_call' = Called("load_settings",
                      [gist_id |-> gist_id, settings_gist_id |-> settings_gist_id,
                       settings |-> settings],
                      LoadSettings(gist_id, settings_gist_id, settings))
            /\ UNCHANGED <<procVars, storeVars, newsVars, cmdVars>>

(* one turn of the headline loop of get_news_briefing *)
CallItemHeadline ==
    /\ Idle
    /\ \E title \in TitleTexts \cup {<<>>}, description \in DescriptionTexts,
           text \in GeneratedTexts :
            /\ last_call' = Called("item_headline",
                      [title |-> title, description |-> description,
                       text |-> text],
                      ItemHeadline(title, description, text))
            /\ UNCHANGED <<procVars, storeVars, newsVars, cmdVars>>

CallGetWeather ==
    /\ Idle
    /\ \E key_set \in BOOLEAN, api \in ProviderOutcomes,
           web \in ProviderOutcomes :
            /\ last_call' = Called("get_weather",
                      [key_set |-> key_set, api |-> api, web |-> web],
                      GetWeather(key_set, api, web))
            /\ UNCHANGED <<procVars, storeVars, newsVars, cmdVars>>

(* A call of get_news_briefing(max_items) with the sources answering *)
CallGetNewsBriefing ==
    /\ Idle
    /\ \E key_set \in BOOLEAN, api \in [1..Topics -> ApiYields],
           rss_recent \in [1..Topics -> RecentYields],
           rss_any \in [1..Topics -> AnyYields],
           max_items \in MaxItemsChoices, http \in SourceHttp :
            LET f == FetchAllNews(key_set, api, rss_recent, rss_any, max_items)
                r == GetNewsBriefing(f.all_news, max_items, NoGist, http)
            IN  /\ last_call' = Called("get_news_briefing",
                          [key_set |-> key_set, api |-> api,
                           rss_recent |-> rss_recent, rss_any |-> rss_any,
                           max_items |-> max_items],
                          [fetch |-> f, seen_urls |-> r.facts.seen_urls,
                           result |-> r.result])
                /\ run' = r
                /\ gists' = r.store.gists
                /\ created' = r.store.created
                /\ first_seen' = FirstSeenAfter(r.store.gists)
                /\ last_save' = NoSave
                /\ loaded' = NoLoad
                /\ UNCHANGED <<procVars, now, gist_token, env_gist_id, cmd, sends>>

CallGetProjectReminders ==
    /\ Idle
    /\ \E configured \in BOOLEAN, qdrant_projects \in ProjectLists,
           obsidian_projects \in ProjectLists, sync_ok \in BOOLEAN :
            /\ last_call' = Called("get_project_reminders",
                      [configured |-> configured,
                       qdrant_projects |-> qdrant_projects,
                       obsidian_projects |-> obsidian_projects,
                       sync_ok |-> sync_ok],
                      GetProjectReminders(configured, qdrant_projects,
                                          obsidian_projects, sync_ok))
            /\ UNCHANGED <<procVars, storeVars, newsVars, cmdVars>>

---------------------------------------------------------------------------
(* utils/retry.py: retry_on_failure.  The wrapped function is given by what
   its successive invocations do: return a value ("ok"), raise one of the
   listed exceptions ("listed"), or raise another one ("other").  The log
   holds the invocations and the sleeps of one call of the wrapper, in
   order; a result names the attempt it comes from.                        *)

AttemptOutcomes == {"ok", "listed", "other"}

Invoked(attempt) == [ev |-> "call", n |-> attempt]
Slept(seconds) == [ev |-> "sleep", n |-> seconds]

(* the for loop of wrapper, lines 39-61, from the given attempt on *)
RECURSIVE Attempts(_, _, _, _, _, _)
Attempts(max_attempts, backoff, outcomes, attempt, current_delay, log) ==
    IF attempt > max_attempts
    THEN [log |-> log, result |-> [kind |-> "none", attempt |-> 0]]
    ELSE LET invoked == Append(log, Invoked(attempt))
         IN  CASE outcomes[attempt] = "ok" ->
                    [log |-> invoked,
                     result |-> [kind |-> "value", attempt |-> attempt]]
               [] outcomes[attempt] = "other" ->
                    [log |-> invoked,
                     result |-> [kind |-> "raise", attempt |-> attempt]]
               [] outcomes[attempt] = "listed" ->
                    IF attempt < max_attempts
                    THEN Attempts(max_attempts, backoff, outcomes, attempt + 1,
                                  current_delay * backoff,
                                  Append(invoked, Slept(current_delay)))
                    ELSE Attempts(max_attempts, backoff, outcomes, attempt + 1,
                                  current_delay, invoked)

(* a wrapper that gives up after the first failure *)
RetryOnFailureOnce(max_attempts, delay, backoff, outcomes) ==
    Attempts(IF max_attempts > 1 THEN 1 ELSE max_attempts, backoff, outcomes,
             1, delay, <<>>)

(* one call of the function retry_on_failure(max_attempts, delay, backoff)
   wraps                                                                   *)
RetryOnFailure(max_attempts, delay, backoff, outcomes) ==
    Attempts(max_attempts, backoff, outcomes, 1, delay, <<>>)

CallRetryOnFailure ==
    /\ Idle
    /\ \E max_attempts \in 0..MaxAttempts,
           outcomes \in [1..MaxAttempts -> AttemptOutcomes] :
            /\ last_call' = Called("retry_on_failure",
                      [max_attempts |-> max_attempts, outcomes |-> outcomes],
                      RetryOnFailure(max_attempts, RetryDelay, RetryBackoff,
                                     outcomes))
            /\ UNCHANGED <<procVars, storeVars, newsVars, cmdVars>>

NextCalls ==
    \/ CallHealthCheck
    \/ CallFormatWeather \/ CallFormatCommute \/ CallFormatNews
    \/ CallFormatSchedule \/ CallFormatEvening \/ CallFormatProject
    \/ CallGetEveningSchedule
    \/ CallLoadSettings
    \/ CallItemHeadline
    \/ CallGetWeather
    \/ CallGetNewsBriefing
    \/ CallGetProjectReminders
    \/ CallRetryOnFailure
    \/ Return

SpecCalls == Init /\ [][NextCalls]_vars

---------------------------------------------------------------------------
(* utils/settings.py against the gist service.  A key is the list of the
   parts that "." separates.                                               *)

NestedSections == {"notifications", "location", "notification_times"}

(* the id as the text load_settings tests with "not gist_id" *)
GistIdText(gist_id) == IF gist_id = NoGist THEN "" ELSE gist_id[1]

(* what load_state(gist_id, "settings.json") hands load_settings *)
SettingsRead(gist_id, http_ok) ==
    LET id == IF gist_id = NoGist THEN env_gist_id ELSE gist_id
        state == LoadState(id, SettingsFile, http_ok)
    IN  IF id = NoGist \/ state = <<>> THEN None ELSE state[1]

(* load_settings(gist_id) with its read of the store *)
ReadSettings(gist_id, http_ok) ==
    LoadSettings(GistIdText(gist_id), GistIdText(env_gist_id),
                 SettingsRead(gist_id, http_ok))

(* the top-level values of the loaded document that are the very objects
   held by DEFAULT_SETTINGS: dict.copy() is shallow, and update() replaces
   only the keys the blob holds                                            *)
SharedWithDefaults(gist_id, http_ok) ==
    LET settings == SettingsRead(gist_id, http_ok)
        id == IF gist_id = NoGist THEN env_gist_id ELSE gist_id
    IN  IF id # NoGist /\ settings # None /\ DOMAIN settings # {}
        THEN DOMAIN default_settings \ DOMAIN settings
        ELSE DOMAIN default_settings

(* current[k] = value on a dict *)
SetItem(d, k, value) ==
    [x \in DOMAIN d \cup {k} |-> IF x = k THEN value ELSE d[x]]

(* update_setting lines 111-123: load, walk the dotted key, assign, save.
   Yields the module-level defaults after the assignment and what
   save_state did.                                                         *)
UpdateSetting(keys, value, gist_id, http) ==
    LET settings == ReadSettings(gist_id, http.get)
        section == IF keys[1] \in DOMAIN settings THEN settings[keys[1]]
                   ELSE [k \in {} |-> None]
        changed == IF Len(keys) = 1 THEN SetItem(settings, keys[1], value)
                   ELSE SetItem(settings, keys[1],
                                SetItem(section, keys[2], value))
    IN  [default_settings |->
             IF Len(keys) = 2
                /\ keys[1] \in SharedWithDefaults(gist_id, http.get)
             THEN [default_settings EXCEPT ![keys[1]] =
                       SetItem(section, keys[2], value)]
             ELSE default_settings,
         save |-> SaveState(changed, gist_id, SettingsFile, http)]

(* get_setting: load, then walk the dotted key through the dicts *)
GetSetting(keys, default, gist_id, http_ok) ==
    LET settings == ReadSettings(gist_id, http_ok)
    IN  IF keys[1] \notin DOMAIN settings THEN default
        ELSE IF Len(keys) = 1 THEN settings[keys[1]]
        ELSE IF keys[1] \in NestedSections
                /\ keys[2] \in DOMAIN settings[keys[1]]
             THEN settings[keys[1]][keys[2]]
             ELSE default

(* Keys and values given to update_setting / get_setting *)
SettingKeys ==
    {<<"notifications", "weather">>, <<"location", "city">>,
     <<"news_categories">>}

NewValue(keys) ==
    CASE keys = <<"notifications", "weather">> -> FALSE
      [] keys = <<"location", "city">> -> "Busan"
      [] keys = <<"news_categories">> -> <<"AI">>

GistIdArgs == {NoGist, EnvGist}

StoredLoadSettings ==
    /\ Idle
    /\ \E gist_id \in GistIdArgs, http_ok \in BOOLEAN :
        /\ last_call' = Called("load_settings",
                  [gist_id |-> gist_id, http_ok |-> http_ok],
                  ReadSettings(gist_id, http_ok))
        /\ UNCHANGED <<storeVars, newsVars, cmdVars, procVars>>

StoredGetSetting ==
    /\ Idle
    /\ \E keys \in SettingKeys, gist_id \in GistIdArgs, http_ok \in BOOLEAN :
        /\ last_call' = Called("get_setting",
                  [key |-> keys, gist_id |-> gist_id, http_ok |-> http_ok],
                  [key |-> keys,
                   value |-> GetSetting(keys, None, gist_id, http_ok)])
        /\ UNCHANGED <<storeVars, newsVars, cmdVars, procVars>>

(* update_setting, with save_settings lines 89-96: a gist created on a
   save without an id becomes the SETTINGS_GIST_ID of the process          *)
StoredUpdateSetting ==
    /\ Idle
    /\ \E keys \in SettingKeys, gist_id \in GistIdArgs, http \in HttpOutcomes :
        LET u == UpdateSetting(keys, NewValue(keys), gist_id, http)
        IN  /\ default_settings' = u.default_settings
            /\ gists' = u.save.gists
            /\ created' = u.save.created
            /\ first_seen' = [g \in DOMAIN u.save.gists |->
                                 IF g \in DOMAIN first_seen
                                 THEN first_seen[g] ELSE <<>>]
            /\ env_gist_id' = IF u.save.id # NoGist /\ gist_id = NoGist
                              THEN u.save.id ELSE env_gist_id
            /\ last_call' = Called("update_setting",
                      [key |-> keys, value |-> NewValue(keys),
                       gist_id |-> gist_id],
                      u.save.id # NoGist)
            /\ UNCHANGED <<now, gist_token, newsVars, cmdVars, inflight>>

NextSettings ==
    StoredLoadSettings \/ StoredGetSetting \/ StoredUpdateSetting \/ Return

SpecSettings == Init /\ [][NextSettings]_vars

---------------------------------------------------------------------------
(* storage.py update_gist, step by step, next to another writer of the
   same gist (another invocation of the bot, or the owner of the gist).
   update_gist holds no lock between its GET and its PATCH.                *)

(* what a writer may put into a file: a dedup blob or a settings blob *)
FileContents(filename) ==
    IF filename = NewsFile
    THEN {JsonDumps(NewsState(urls, now)) : urls \in {{"u1"}, {"u1", "u2"}}}
    ELSE {JsonDumps([settings |-> text]) : text \in {"saved", "changed"}}

(* update_gist lines 79-98: the token check, the GET, and the body of the
   PATCH built from what the GET returned with the target file replaced    *)
UpdateGistRead ==
    /\ inflight.pc = "idle"
    /\ \E filename \in {NewsFile, SettingsFile}, get_ok \in BOOLEAN :
       \E content \in FileContents(filename) :
        LET gist_id == EnvGist
            failed == ~gist_token \/ ~get_ok \/ gist_id \notin DOMAIN gists
            current == gists[gist_id]
        IN  /\ inflight' =
                   IF failed
                   THEN [NoUpdate EXCEPT !.pc = "done", !.gist_id = gist_id,
                                         !.filename = filename,
                                         !.content = content]
                   ELSE [pc |-> "read", gist_id |-> gist_id,
                         filename |-> filename, content |-> content,
                         files |-> [f \in DOMAIN current \cup {filename} |->
                                      IF f = filename THEN content
                                      ELSE current[f]],
                         before |-> <<>>, ok |-> FALSE]
            /\ UNCHANGED <<storeVars, newsVars, cmdVars, last_call,
                           default_settings>>

(* update_gist lines 100-115: the PATCH sends every file of the body; the
   gist as it was just before the PATCH is kept in before                  *)
UpdateGistWrite ==
    /\ inflight.pc = "read"
    /\ \E patch_ok \in BOOLEAN :
        /\ gists' = IF patch_ok
                    THEN [gists EXCEPT ![inflight.gist_id] =
                             [f \in DOMAIN @ \cup DOMAIN inflight.files |->
                                 IF f \in DOMAIN inflight.files
                                 THEN inflight.files[f] ELSE @[f]]]
                    ELSE gists
        /\ inflight' = [inflight EXCEPT !.pc = "done", !.ok = patch_ok,
                                        !.before = gists[inflight.gist_id]]
        /\ UNCHANGED <<now, gist_token, env_gist_id, created, first_seen,
                       newsVars, cmdVars, last_call, default_settings>>

(* another writer replaces one file of a gist in a single request *)
OtherWriter ==
    /\ inflight.pc # "done"
    /\ \E gist_id \in DOMAIN gists, filename \in {NewsFile, SettingsFile} :
       \E content \in FileContents(filename) :
        /\ filename \in DOMAIN gists[gist_id] => gists[gist_id][filename] # content
        /\ gists' = [gists EXCEPT ![gist_id] =
                        [f \in DOMAIN @ \cup {filename} |->
                            IF f = filename THEN content ELSE @[f]]]
        /\ UNCHANGED <<now, gist_token, env_gist_id, created, first_seen,
                       newsVars, cmdVars, last_call, procVars>>

(* update_gist has returned and its caller goes on *)
UpdateGistReturn ==
    /\ inflight.pc = "done"
    /\ inflight' = NoUpdate
    /\ UNCHANGED <<storeVars, newsVars, cmdVars, last_call, default_settings>>

NextGist == UpdateGistRead \/ OtherWriter \/ UpdateGistWrite \/ UpdateGistReturn

SpecGist == Init /\ [][NextGist]_vars

---------------------------------------------------------------------------
(* Claims about the scheduled commands (SpecCmd) *)

Delivered == \E i \in 1..Len(sends) : sends[i].ok
FailedDelivery == \E i \in 1..Len(sends) : ~sends[i].ok

(* C1: every invocation of a scheduled command hands a message to the
   delivery sink at least once before it returns, also when the source
   adapter reports "unavailable".  (Runs in which the adapter raises are
   the matter of C3 and are left out here.)                                *)
C1_AlwaysDelivers ==
    (cmd.status = "returned" /\ cmd.fetch # "raises") => Len(sends) >= 1

(* C2: no invocation of a scheduled command calls the delivery sink more
   than once; a failed delivery is not retried and the news command's
   exception path sends no second message.                                 *)
C2_AtMostOneSend == Len(sends) <= 1

C2_Witness ==
    /\ cmd.kind = "news" /\ cmd.fetch = "raises" /\ cmd.status = "returned"
    /\ Len(sends) = 1 /\ ~sends[1].ok

(* C3: when a source adapter raises during FETCH, every scheduled command
   catches it and delivers a fallback message instead of ending without a
   message.                                                                *)
C3_FetchExceptionDelivers ==
    (cmd.status # "idle" /\ cmd.fetch = "raises")
        => (cmd.status = "returned" /\ Len(sends) >= 1)

(* C4: a scheduled command returns exit code 0 whenever a message was
   successfully delivered, the apology of the news command's exception path
   included.                                                               *)
C4_DeliveredExitsZero ==
    Delivered => (cmd.status = "returned" /\ cmd.exit = 0)

(* C5: a scheduled command returns exit code 1 only if a delivery attempt
   failed or an exception was raised; with no exception and no failed
   delivery the exit code is 0.                                            *)
C5_ExitOneOnlyOnFailure ==
    (cmd.status # "idle" /\ cmd.fetch # "raises" /\ ~FailedDelivery)
        => cmd.exit = 0

(* The message the kind's deterministic formatter makes of the facts *)
DeterministicMessage(kind, facts) ==
    CASE kind = "weather"  -> FormatWeatherMessage(facts).text
      [] kind = "commute"  -> FormatCommuteMessage(facts).text
      [] kind = "schedule" ->
             FormatScheduleMessage(Get(facts, "events", List(<<>>))).text
      [] kind = "evening"  -> FormatEveningMessage(facts).text
      [] kind = "night"    -> FormatProjectMessage(facts).text

(* C12: in every command that uses enrichment (weather, schedule, evening,
   night, commute), when the text-generation call fails or returns empty
   text, the delivered message is exactly the output of that kind's
   deterministic formatter on the same facts, and the generation call is
   not repeated.                                                           *)
C12_EnrichmentFailureFallsBack ==
    (cmd.status = "returned" /\ cmd.llm \in {"empty", "fails"}) =>
        /\ cmd.llm_calls = 1
        /\ Len(sends) = 1
        /\ sends[1].text = DeterministicMessage(cmd.kind, cmd.facts)

C12_Witness ==
    /\ cmd.kind = "commute" /\ cmd.status = "returned" /\ cmd.llm = "fails"
    /\ Len(sends) = 1 /\ sends[1].ok
    /\ sends[1].text[Len(sends[1].text)] = BringUmbrella

(* C13, as stated: each invocation, for every notification kind including
   news, makes at most one call to the generative text service.            *)
C13_AtMostOneLlmCall == cmd.llm_calls <= 1

(* C13, amended: an invocation of weather, schedule, evening, night or
   commute makes at most one call to the generative text service; a news
   invocation makes one call for each item of the briefing it returns, at
   most max_items = 5, and repeats none.                                   *)
C13_OneCallOrOnePerHeadline ==
    /\ cmd.kind # "news" => cmd.llm_calls <= 1
    /\ cmd.kind = "news" =>
           /\ cmd.llm_calls = Len(run.result)
           /\ cmd.llm_calls <= NewsCommandMaxItems

C13_Witness ==
    /\ cmd.kind = "news" /\ cmd.status = "returned"
    /\ Len(run.result) = 2 /\ cmd.llm_calls = 2
    /\ Len(sends) = 1

(* C14: for the evening and night kinds, when a non-empty generated
   preamble is used the delivered message is the preamble, a blank line,
   and then the part of the deterministic formatter's message after its
   first blank-line separator, verbatim; when no preamble is produced the
   deterministic message is delivered unchanged.                           *)
C14_PreambleThenTail ==
    (cmd.status = "returned" /\ cmd.kind \in {"evening", "night"}
     /\ Len(sends) = 1) =>
        LET message == DeterministicMessage(cmd.kind, cmd.facts)
        IN  IF cmd.llm = "text"
            THEN sends[1].text = LlmText \o SubSeq(message, 2, Len(message))
            ELSE sends[1].text = message

C14_Witness ==
    /\ cmd.kind = "evening" /\ cmd.status = "returned" /\ cmd.llm = "text"
    /\ Len(sends) = 1
    /\ sends[1].text =
           <<"llm:text", "evening:events", "evening:tomorrow",
             "evening:recommendations", "evening:closing">>

---------------------------------------------------------------------------
(* Claims about get_news_briefing (SpecNews) *)

Usable(item) == item.url # "" /\ Len(NormTitle(item.title)) >= MinTitleLen

(* C6, as stated: a url persisted in the seen set with a stamp inside the
   7-day window never appears in a briefing get_news_briefing returns.     *)
C6_PersistedNeverReturned ==
    run.called => UrlsIn(run.result) \cap run.facts.persisted = {}

(* C6, amended: a url persisted under the configured gist id with a stamp
   inside the 7-day window appears in a returned briefing only if the run's
   read of the seen set failed or no unseen item survived the filter (the
   previously-seen fallback).                                              *)
C6_PersistedOnlyAfterFailedLoadOrFallback ==
    (run.called /\ UrlsIn(run.result) \cap run.facts.persisted # {})
        => (run.facts.load_failed \/ run.unseen = <<>>)

(* a later run: a persisted url came back in the raw fetch, was filtered
   out, and an unseen item was returned                                    *)
C6_Witness ==
    /\ run.called /\ ~run.facts.load_failed
    /\ run.facts.persisted \cap UrlsIn(run.facts.all_news) # {}
    /\ run.result # <<>> /\ run.unseen # <<>>
    /\ UrlsIn(run.result) \cap run.facts.persisted = {}

(* C7: get_news_briefing returns no item whose url is in the seen set it
   loaded, unless the filter leaves zero items; in that case what it
   returns are previously-seen items.                                      *)
C7_NoSeenUnlessNothingLeft ==
    run.called =>
        /\ run.unseen # <<>> =>
               UrlsIn(run.result) \cap run.facts.seen_urls = {}
        /\ run.unseen = <<>> =>
               UrlsIn(run.result) \subseteq run.facts.seen_urls

C7_Witness ==
    /\ run.called /\ run.facts.seen_urls # {}
    /\ run.unseen = <<>> /\ run.result # <<>>
    /\ UrlsIn(run.result) \subseteq run.facts.seen_urls

(* C8: whenever the raw fetch is non-empty but zero unique unseen items
   remain, get_news_briefing returns a non-empty list of at most max_items
   previously-seen items.  Stated for the raw fetches that hold a usable
   previously-seen item, the ones where there is something to return.      *)
C8_FallbackNeverEmpty ==
    (/\ run.called /\ run.unseen = <<>>
     /\ \E i \in 1..Len(run.facts.all_news) :
            /\ Usable(run.facts.all_news[i])
            /\ run.facts.all_news[i].url \in run.facts.seen_urls)
        => /\ run.result # <<>>
           /\ Len(run.result) <= run.facts.max_items
           /\ UrlsIn(run.result) \subseteq run.facts.seen_urls

---------------------------------------------------------------------------
(* Claims about the Dedup Store (SpecStore) *)

(* The round trip under a configured gist id *)
RoundTripConfiguredKey ==
    (/\ loaded.called /\ ~loaded.failed
     /\ last_save.called /\ last_save.id # NoGist
     /\ last_save.key # NoGist
     /\ loaded.key = last_save.key
     /\ loaded.at <= last_save.at + RetentionDays)
        => last_save.urls \subseteq loaded.urls

(* C9: if _save_seen_news_urls(load(k) \cup X, k) succeeds, for a configured
   gist id k or for none, a following _get_seen_news_urls(k) within 7 days
   returns a superset of X.  (Reads that fail are left out.)               *)
C9_RoundTrip ==
    (/\ loaded.called /\ ~loaded.failed
     /\ last_save.called /\ last_save.id # NoGist
     /\ loaded.key = last_save.key
     /\ loaded.at <= last_save.at + RetentionDays)
        => last_save.urls \subseteq loaded.urls

(* C10: a url whose first-seen time is more than 7 days before now is
   absent from the set a load returns; saving other urls in the meantime
   does not renew the stamp of a url already persisted.  Stated for the
   urls the last save did not itself supply.                               *)
C10_ExpiresAfterFirstSeen ==
    (loaded.called /\ ~loaded.failed) =>
        \A u \in loaded.urls \ last_save.urls :
            now - first_seen[loaded.key][u] <= RetentionDays

(* C11: a save to the Dedup Store always merges with what is persisted:
   after _save_seen_news_urls returns, every url that was persisted inside
   the 7-day window before the call is still persisted, also when the read
   of the existing state fails transiently.                                *)
C11_SaveKeepsPersisted ==
    last_save.called => last_save.before \subseteq last_save.after

---------------------------------------------------------------------------
(* Claims about health_check, the formatters and get_evening_schedule
   (SpecCalls)                                                             *)

NonEmptySecret(value) == value # Unset /\ value # ""

(* C15: health_check reports the pipeline healthy if and only if all three
   required secrets (chat token, chat recipient id, generative-model key)
   are set to non-empty values; no optional secret affects the result.     *)
C15_HealthyIffThreeSecrets ==
    CallOf("health_check") =>
        (Result("health_check") <=>
            /\ NonEmptySecret(Args("health_check").TELEGRAM_TOKEN)
            /\ NonEmptySecret(Args("health_check").TELEGRAM_CHAT_ID)
            /\ NonEmptySecret(Args("health_check").GEMINI_API_KEY))

(* C16: for every weather fact, format_weather_message ends with the
   'bring umbrella' text if and only if rain_probability >= 30, and with
   the 'no umbrella needed' text otherwise; a missing rain_probability
   counts as 0 and exactly 30 recommends the umbrella.                     *)
C16_UmbrellaIffThirty ==
    (CallOf("format_weather_message")
     /\ Result("format_weather_message").ok) =>
        LET text == Result("format_weather_message").text
            ending == text[Len(text)]
            weather_data == Args("format_weather_message")
            rain == IF "rain_probability" \in DOMAIN weather_data
                    THEN weather_data["rain_probability"].v
                    ELSE 0
        IN  /\ (ending = BringUmbrella) <=> (rain >= 30)
            /\ (ending = NoUmbrella) <=> (rain < 30)

C16_Witness ==
    /\ CallOf("format_weather_message")
    /\ "rain_probability" \in DOMAIN Args("format_weather_message")
    /\ Args("format_weather_message")["rain_probability"] = Num(30)
    /\ Result("format_weather_message").ok
    /\ Result("format_weather_message").text[3] = BringUmbrella

FormatterNames ==
    {"format_weather_message", "format_commute_message",
     "format_news_message", "format_schedule_message",
     "format_evening_message", "format_project_message"}

(* C17: every deterministic formatter (weather, commute, news, schedule,
   evening, project) returns a non-empty string, without raising, for an
   empty or partial input record: an empty list, a record with fields
   missing or None-valued.                                                 *)
C17_FormattersTotal ==
    \A fn \in FormatterNames :
        CallOf(fn) => (Result(fn).ok /\ Result(fn).text # <<>>)

(* C18: format_evening_message renders an explicit 'nothing scheduled'
   sentence for each of its two schedule sections (this-evening events,
   tomorrow preview) that is empty, rather than omitting that section.     *)
C18_EmptySectionsSaySo ==
    (CallOf("format_evening_message")
     /\ Result("format_evening_message").ok) =>
        LET text == Result("format_evening_message").text
            paragraphs == {text[i] : i \in 1..Len(text)}
            schedule == Get(Args("format_evening_message"), "schedule",
                            Dict(EmptyDict)).v
        IN  /\ ~Truthy(Get(schedule, "evening_events", List(<<>>)))
                   => "evening:none_tonight" \in paragraphs
            /\ ~Truthy(Get(schedule, "tomorrow_preview", List(<<>>)))
                   => "evening:none_tomorrow" \in paragraphs

(* C18, amended: format_evening_message renders the explicit 'nothing
   scheduled this evening' sentence when the this-evening section is empty
   and the list of events otherwise; an empty tomorrow preview is left out
   of the message, with no sentence in its place.                          *)
C18_EveningSaysSoTomorrowOmitted ==
    (CallOf("format_evening_message")
     /\ Result("format_evening_message").ok) =>
        LET text == Result("format_evening_message").text
            paragraphs == {text[i] : i \in 1..Len(text)}
            schedule == Get(Args("format_evening_message"), "schedule",
                            Dict(EmptyDict)).v
            evening_empty ==
                ~Truthy(Get(schedule, "evening_events", List(<<>>)))
            tomorrow_empty ==
                ~Truthy(Get(schedule, "tomorrow_preview", List(<<>>)))
        IN  /\ evening_empty <=> "evening:none_tonight" \in paragraphs
            /\ evening_empty <=> "evening:events" \notin paragraphs
            /\ tomorrow_empty <=> "evening:tomorrow" \notin paragraphs
            /\ "evening:none_tomorrow" \notin paragraphs

C18_Witness ==
    /\ CallOf("format_evening_message")
    /\ Result("format_evening_message").ok
    /\ "schedule" \in DOMAIN Args("format_evening_message")
    /\ Args("format_evening_message")["schedule"] =
           Dict([evening_events |-> List(<<>>), tomorrow_preview |-> List(<<>>)])
    /\ Result("format_evening_message").text[2] = "evening:none_tonight"
    /\ Result("format_evening_message").text[3] # "evening:tomorrow"

(* C19: get_evening_schedule puts into evening_events every event of today
   whose start is at or after 18:00 local time, whatever offset the
   provider attached to it, and no timed event that starts before 18:00;
   tomorrow_preview holds at most 3 events, all marked important.          *)
C19_EveningEventsFromEighteen ==
    CallOf("get_evening_schedule") =>
        LET today == Args("get_evening_schedule").today_events
            evening == Result("get_evening_schedule").evening_events.v
            preview == Result("get_evening_schedule").tomorrow_preview.v
        IN  /\ \A i \in 1..Len(today) :
                   (today[i].start.kind = "dateTime" /\ today[i].start.hour >= 18)
                       => \E j \in 1..Len(evening) : evening[j] = today[i]
            /\ \A j \in 1..Len(evening) :
                   evening[j].start.kind = "dateTime"
                       => evening[j].start.hour >= 18
            /\ Len(preview) <= 3
            /\ \A j \in 1..Len(preview) : preview[j].important

(* C20: for any persisted settings blob, load_settings returns a document
   in which every key of the hard-coded defaults is present, at the top
   level and inside the nested sections (notifications.<kind>, location.*,
   notification_times.<kind>).                                             *)
C20_EveryDefaultKeyPresent ==
    CallOf("load_settings") =>
        LET loaded_settings == Result("load_settings")
        IN  \A k \in DOMAIN DEFAULT_SETTINGS :
                /\ k \in DOMAIN loaded_settings
                /\ k \in NestedSections =>
                       DOMAIN DEFAULT_SETTINGS[k]
                           \subseteq DOMAIN loaded_settings[k]

(* C21: every item returned by get_news_briefing carries a headline that is
   a single line of at most 40 characters, whether it came from the text
   service or from the fallback to the cleaned title / description.        *)
C21_HeadlineOneLineAtMostForty ==
    CallOf("item_headline") =>
        LET headline == Result("item_headline")
        IN  /\ Len(headline) <= 40
            /\ \A i \in 1..Len(headline) : headline[i] \notin LineBreaks

(* C22: get_weather attempts the keyed provider first when its key is set;
   it calls the no-key web provider only after the keyed one failed or was
   not configured, never after it succeeded, and returns None only after
   the web provider was attempted and failed.                              *)
C22_KeyedFirstWebOnlyAfter ==
    CallOf("get_weather") =>
        LET a == Args("get_weather")
            calls == Result("get_weather").calls
            value == Result("get_weather").value
            api_at == {i \in 1..Len(calls) : calls[i] = "api"}
            web_at == {i \in 1..Len(calls) : calls[i] = "web"}
        IN  /\ a.key_set <=> api_at = {1}
            /\ ~a.key_set => api_at = {}
            /\ web_at # {} =>
                   /\ web_at = {Len(calls)}
                   /\ ~a.key_set \/ a.api # "ok"
            /\ (a.key_set /\ a.api = "ok") =>
                   (web_at = {} /\ value = ApiWeather)
            /\ (~a.key_set \/ a.api # "ok") => web_at # {}
            /\ value = None => (web_at # {} /\ a.web # "ok")
            /\ (web_at # {} /\ a.web = "ok") => value = WebWeather

C22_Witness ==
    /\ CallOf("get_weather")
    /\ Args("get_weather").key_set
    /\ Args("get_weather").api = "RequestException"
    /\ Args("get_weather").web = "ok"
    /\ Result("get_weather").calls = <<"api", "web">>
    /\ Result("get_weather").value = WebWeather

Yielded(yields) == \E i \in 1..Len(yields) : yields[i] # <<>>

(* C23: in get_news_briefing the RSS fallback is attempted only if the
   keyed search API yielded no items across all topics, the RSS pass
   without a time restriction only if the time-restricted pass also yielded
   nothing, and the function returns an empty list only after all three
   stages yielded nothing.                                                 *)
C23_StagesInOrderEmptyOnlyAfterAll ==
    CallOf("get_news_briefing") =>
        LET a == Args("get_news_briefing")
            f == Result("get_news_briefing").fetch
            api_yielded == a.key_set /\ Yielded(a.api)
        IN  /\ f.recent_asked > 0 => ~api_yielded
            /\ f.any_asked > 0 => (~api_yielded /\ ~Yielded(a.rss_recent))
            /\ Result("get_news_briefing").result = <<>> =>
                   /\ ~api_yielded
                   /\ ~Yielded(a.rss_recent)
                   /\ ~Yielded(a.rss_any)

(* C23, amended: the RSS fallback is attempted if and only if the keyed
   search API yielded no items, the pass without a time restriction if and
   only if the time-restricted pass yielded nothing either; the function
   returns an empty list only if all three stages yielded nothing or no
   fetched item is both usable (a url and a title of at least 10
   characters) and not yet seen.                                           *)
C23_StagesInOrderEmptyOnlyWithoutNews ==
    CallOf("get_news_briefing") =>
        LET a == Args("get_news_briefing")
            f == Result("get_news_briefing").fetch
            seen_urls == Result("get_news_briefing").seen_urls
            api_yielded == a.key_set /\ Yielded(a.api)
        IN  /\ f.api_asked > 0 <=> a.key_set
            /\ f.recent_asked > 0 <=> ~api_yielded
            /\ f.any_asked > 0 <=> (~api_yielded /\ ~Yielded(a.rss_recent))
            /\ Result("get_news_briefing").result = <<>> =>
                   \/ /\ ~api_yielded
                      /\ ~Yielded(a.rss_recent)
                      /\ ~Yielded(a.rss_any)
                   \/ \A i \in 1..Len(f.all_news) :
                          \/ ~Usable(f.all_news[i])
                          \/ f.all_news[i].url \in seen_urls

C23_Witness ==
    /\ CallOf("get_news_briefing")
    /\ Args("get_news_briefing").key_set
    /\ Yielded(Args("get_news_briefing").api)
    /\ Result("get_news_briefing").fetch.recent_asked = 0
    /\ Result("get_news_briefing").fetch.all_news # <<>>
    /\ Result("get_news_briefing").result = <<>>

(* C24: get_project_reminders never scans the notes vault when the vector
   store returned at least one project, never invokes the sync into the
   vector store unless the vault scan of the same invocation returned at
   least one record, and returns the same value whether that sync succeeds
   or fails.                                                               *)
C24_StoreFirstSyncAfterScan ==
    CallOf("get_project_reminders") =>
        LET a == Args("get_project_reminders")
            calls == Result("get_project_reminders").calls
            at(name) == {i \in 1..Len(calls) : calls[i] = name}
        IN  /\ (a.configured /\ a.qdrant_projects # <<>>) => at("scan") = {}
            /\ at("sync") # {} =>
                   /\ at("scan") # {}
                   /\ \A i \in at("sync"), j \in at("scan") : j < i
                   /\ a.obsidian_projects # <<>>
            /\ Result("get_project_reminders").value =
                   GetProjectReminders(a.configured, a.qdrant_projects,
                                       a.obsidian_projects, ~a.sync_ok).value

C24_Witness ==
    /\ CallOf("get_project_reminders")
    /\ Args("get_project_reminders").configured
    /\ Args("get_project_reminders").qdrant_projects = <<>>
    /\ Args("get_project_reminders").obsidian_projects # <<>>
    /\ ~Args("get_project_reminders").sync_ok
    /\ Result("get_project_reminders").calls = <<"search", "scan", "sync">>
    /\ Truthy(Result("get_project_reminders").value.has_projects)

(* C25: no two items in the list returned by get_news_briefing share the
   same normalized (lower-cased, trimmed) title, on the normal path and on
   the previously-seen fallback path alike.                                *)
C25_NoRepeatedTitle ==
    run.called =>
        \A i, j \in 1..Len(run.result) :
            i # j => run.result[i].title.core # run.result[j].title.core

C25_Witness ==
    /\ run.called
    /\ Len(run.facts.all_news) = 2
    /\ run.facts.max_items = 2
    /\ run.facts.all_news[1].title.core = run.facts.all_news[2].title.core
    /\ run.facts.all_news[1].url # run.facts.all_news[2].url
    /\ \A i \in 1..2 : /\ Usable(run.facts.all_news[i])
                        /\ run.facts.all_news[i].url \notin run.facts.seen_urls
    /\ Len(run.result) = 1

(* The urls the run of the news command added to the blob it saved *)
MarkedByRun ==
    LET g == run.store.id
    IN  IF g = NoGist \/ g \notin DOMAIN gists THEN {}
        ELSE (UrlsOf(g, gists) \cap run.new_urls)
             \ (IF g = run.facts.gist_id THEN run.facts.persisted ELSE {})

(* C26: the Dedup Store records delivered urls only: a url is added to the
   persisted seen set only after the briefing containing it has been
   successfully delivered, so when delivery of a news briefing fails its
   urls are not marked as seen.                                            *)
C26_SeenOnlyIfDelivered ==
    (cmd.kind = "news" /\ cmd.status = "returned" /\ run.called
     /\ ~Delivered) => MarkedByRun = {}

(* C27: whenever the dedup-store token is configured and the save inside
   get_news_briefing succeeds, the next invocation of get_news_briefing
   loads a seen set that contains the urls just saved, whether or not a
   gist id was configured before the first run.  (Only get_news_briefing
   writes news blobs here; the blobs of the gists the run did not write
   are what earlier runs saved.  Runs whose read failed are left out.)     *)
C27_NextRunLoadsSaved ==
    (run.called /\ ~run.facts.load_failed) =>
        /\ run.facts.persisted \subseteq run.facts.seen_urls
        /\ \A g \in DOMAIN gists \ {run.store.id} :
               LiveUrlsOf(g, gists) \subseteq run.facts.seen_urls

---------------------------------------------------------------------------
(* Claims about concurrent writers of one gist (SpecGist) *)

(* C28: update_gist(g, f, c) changes only file f: every other file of gist
   g keeps the content it had immediately before the write, also when
   another writer updated a different file of the gist between
   update_gist's read and its write.                                       *)
C28_OtherFilesKept ==
    (inflight.pc = "done" /\ inflight.ok) =>
        \A f \in DOMAIN inflight.before \ {inflight.filename} :
            gists[inflight.gist_id][f] = inflight.before[f]

---------------------------------------------------------------------------
(* Claims about the settings of one process (SpecSettings) *)

(* C29: update_setting never modifies the hard-coded DEFAULT_SETTINGS: when
   its save fails (it returns False), every later load_settings /
   get_setting of the process returns the same values as before the call,
   for top-level and dotted nested keys alike.                             *)
C29_FailedUpdateLeavesSettings ==
    [][/\ default_settings' = default_settings
       /\ ("update_setting" \in DOMAIN last_call'
              /\ ~last_call'["update_setting"].result) =>
             \A gist_id \in GistIdArgs :
                /\ ReadSettings(gist_id, TRUE)' = ReadSettings(gist_id, TRUE)
                /\ \A keys \in SettingKeys :
                       GetSetting(keys, None, gist_id, TRUE)'
                           = GetSetting(keys, None, gist_id, TRUE)]_vars

---------------------------------------------------------------------------
(* Claims about retry_on_failure (SpecCalls) *)

(* the attempts that do not raise a listed exception *)
NotListed(outcomes) == {i \in DOMAIN outcomes : outcomes[i] # "listed"}

FirstNotListed(outcomes) ==
    CHOOSE k \in NotListed(outcomes) : \A i \in NotListed(outcomes) : k <= i

Invocations(log) == Cardinality({i \in DOMAIN log : log[i].ev = "call"})

(* C30: a function wrapped by retry_on_failure(max_attempts=n) is invoked
   exactly min(k, n) times per call, k being the index of its first attempt
   that does not raise a listed exception (n when every attempt raises);
   the wrapper returns that attempt's result, or None after n failed
   attempts, and sleeps only between attempts, never after the last one.   *)
C30_RetryAttemptsResultSleeps ==
    CallOf("retry_on_failure") =>
        LET n == Args("retry_on_failure").max_attempts
            outcomes == Args("retry_on_failure").outcomes
            log == Result("retry_on_failure").log
            result == Result("retry_on_failure").result
            k == IF NotListed(outcomes) = {} THEN n
                 ELSE FirstNotListed(outcomes)
            ends == NotListed(outcomes) # {} /\ k <= n
        IN  /\ Invocations(log) = IF k < n THEN k ELSE n
            /\ ends => /\ result.attempt = k
                       /\ result.kind =
                              IF outcomes[k] = "ok" THEN "value" ELSE "raise"
            /\ ~ends => result.kind = "none"
            /\ \A i \in DOMAIN log :
                   log[i].ev = "sleep" =>
                       /\ 1 < i /\ i < Len(log)
                       /\ log[i - 1].ev = "call"
                       /\ log[i + 1].ev = "call"

(* C30 witness: two listed failures, then the third attempt returns *)
C30_Witness ==
    /\ CallOf("retry_on_failure")
    /\ Args("retry_on_failure").max_attempts = 3
    /\ Result("retry_on_failure").result = [kind |-> "value", attempt |-> 3]
    /\ Result("retry_on_failure").log =
           <<Invoked(1), Slept(1), Invoked(2), Slept(2), Invoked(3)>>

====
